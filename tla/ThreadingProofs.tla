-------------------------- MODULE ThreadingProofs --------------------------
(***************************************************************************)
(* Theorems about the classes of threading.py.                             *)
(*                                                                         *)
(* Part 1: Semaphore, BoundedSemaphore, Event and Barrier, for any finite  *)
(* set of threads, any number of parties and any initial value.  It begins *)
(* with what the operations of CondLine do to the line of waiters; every   *)
(* method of the four objects is one of them and some bookkeeping, so the  *)
(* rest is one step per method.                                            *)
(*                                                                         *)
(* Part 2: Thread, for any threads, daemons or not, and any program.  The  *)
(* invariant rests on one thing: the lock of a thread is held by the       *)
(* thread itself until it is released for good, so whoever gets it knows   *)
(* that the thread has ended.                                              *)
(***************************************************************************)
EXTENDS MCPrimitives, ThreadLife, SequenceTheorems, FiniteSetTheorems, TLAPS

-----------------------------------------------------------------------------
(* Lists in which nobody is named twice.                                   *)

LEMMA ListMembers ==
  ASSUME NEW S, NEW s \in Seq(S)
  PROVE  /\ Len(s) \in Nat /\ DOMAIN s = 1..Len(s)
         /\ \A i \in 1..Len(s) : s[i] \in S /\ s[i] \in ToSet(s)
         /\ \A x \in ToSet(s) : x \in S /\ \E i \in 1..Len(s) : s[i] = x
         /\ s = <<>> => ToSet(s) = {}
<1>1. Len(s) \in Nat /\ DOMAIN s = 1..Len(s) /\ \A i \in 1..Len(s) : s[i] \in S
  BY LenProperties
<1> QED BY <1>1 DEF ToSet

LEMMA AppendList ==
  ASSUME NEW S, NEW s \in Seq(S), NEW x \in S, x \notin ToSet(s), IsInjective(s)
  PROVE  /\ Append(s, x) \in Seq(S)
         /\ ToSet(Append(s, x)) = ToSet(s) \cup {x}
         /\ IsInjective(Append(s, x))
<1> DEFINE a == Append(s, x)
<1>1. /\ a \in Seq(S) /\ Len(a) = Len(s) + 1 /\ Len(s) \in Nat
      /\ DOMAIN a = 1..Len(a) /\ DOMAIN s = 1..Len(s)
      /\ \A i \in 1..Len(s) : a[i] = s[i]
      /\ a[Len(s) + 1] = x
  BY AppendProperties, LenProperties
<1> HIDE DEF a
<1>2. ASSUME NEW y \in ToSet(a) PROVE y \in ToSet(s) \cup {x}
  BY <1>1, <1>2 DEF ToSet
<1>3. ASSUME NEW y \in ToSet(s) PROVE y \in ToSet(a)
  BY <1>1, <1>3 DEF ToSet
<1>4. x \in ToSet(a)
  BY <1>1 DEF ToSet
<1>5. IsInjective(a)
  BY <1>1 DEF IsInjective, ToSet
<1> QED BY <1>1, <1>2, <1>3, <1>4, <1>5 DEF a

LEMMA TailList ==
  ASSUME NEW S, NEW s \in Seq(S), s # <<>>, IsInjective(s)
  PROVE  /\ Head(s) \in S /\ Tail(s) \in Seq(S)
         /\ ToSet(s) = ToSet(Tail(s)) \cup {Head(s)}
         /\ Head(s) \notin ToSet(Tail(s)) /\ IsInjective(Tail(s))
<1> DEFINE h == Head(s)
           r == Tail(s)
<1>1. /\ h \in S /\ r \in Seq(S) /\ Len(r) = Len(s) - 1
      /\ \A i \in 1..Len(r) : r[i] = s[i + 1]
      /\ Len(s) \in Nat \ {0} /\ h = s[1]
      /\ DOMAIN s = 1..Len(s) /\ DOMAIN r = 1..Len(r)
  BY HeadTailProperties, EmptySeq, LenProperties
<1> HIDE DEF h, r
<1>2. ASSUME NEW i \in DOMAIN s PROVE s[i] \in ToSet(r) \cup {h}
  <2>1. CASE i # 1
    <3>1. i - 1 \in DOMAIN r /\ r[i - 1] = s[i]
      BY <1>1, <2>1
    <3> QED BY <3>1 DEF ToSet
  <2> QED BY <1>1, <2>1
<1>3. ASSUME NEW i \in DOMAIN r PROVE r[i] \in ToSet(s) /\ r[i] # h
  <2>1. i + 1 \in DOMAIN s /\ i + 1 # 1 /\ 1 \in DOMAIN s /\ r[i] = s[i + 1]
    BY <1>1
  <2> QED BY <1>1, <2>1 DEF ToSet, IsInjective
<1>4. h \in ToSet(s)
  BY <1>1 DEF ToSet
<1>5. IsInjective(r)
  <2> SUFFICES ASSUME NEW i \in DOMAIN r, NEW j \in DOMAIN r, r[i] = r[j] PROVE i = j
    BY DEF IsInjective
  <2>1. i + 1 = j + 1
    BY <1>1 DEF IsInjective
  <2> QED BY <1>1, <2>1
<1> QED BY <1>1, <1>2, <1>3, <1>4, <1>5 DEF h, r, ToSet

\* remove(waiter): what is before it and what is behind it stays.
LEMMA RemoveList ==
  ASSUME NEW S, NEW s \in Seq(S), IsInjective(s), NEW x
  PROVE  /\ RemoveFirst(s, x) \in Seq(S)
         /\ ToSet(RemoveFirst(s, x)) = ToSet(s) \ {x}
         /\ IsInjective(RemoveFirst(s, x))
<1>1. CASE x \notin ToSet(s)
  <2>1. RemoveFirst(s, x) = s
    BY <1>1, ListMembers DEF RemoveFirst
  <2> QED BY <1>1, <2>1
<1>2. CASE x \in ToSet(s)
  <2>0. \A i, j \in 1..Len(s) : s[i] = s[j] => i = j
    BY ListMembers DEF IsInjective
  <2>1. Len(s) \in Nat /\ DOMAIN s = 1..Len(s) /\ \A i \in 1..Len(s) : s[i] \in S
    BY ListMembers
  <2>2. PICK k \in 1..Len(s) : s[k] = x
    BY <1>2, ListMembers
  <2> DEFINE l == SubSeq(s, 1, k - 1)
             r == SubSeq(s, k + 1, Len(s))
             c == l \o r
  <2>3. RemoveFirst(s, x) = c
    <3>1. {i \in 1..Len(s) : s[i] = x} = {k}
      BY <2>0, <2>1, <2>2
    <3>2. Min({k}) = k
      BY <2>2 DEF Min
    <3>3. SelectInSeq(s, LAMBDA v : v = x) = k
      BY <3>1, <3>2 DEF SelectInSeq
    <3> QED BY <2>2, <3>3 DEF RemoveFirst, RemoveAt
  <2>4. /\ l \in Seq(S) /\ Len(l) = k - 1
        /\ \A i \in 1..(k - 1) : l[i] = s[i]
    <3>1. \A i \in 1..(k - 1) : s[i] \in S
      BY <2>1, <2>2
    <3>2. /\ l \in Seq(S) /\ Len(l) = IF 1 <= k - 1 THEN (k - 1) - 1 + 1 ELSE 0
          /\ \A i \in 1..((k - 1) - 1 + 1) : l[i] = s[1 + i - 1]
      BY <2>2, <3>1, SubSeqProperties
    <3> QED BY <2>1, <2>2, <3>2
  <2>5. /\ r \in Seq(S) /\ Len(r) = Len(s) - k
        /\ \A i \in 1..(Len(s) - k) : r[i] = s[k + i]
    <3>1. k + 1 \in Int /\ Len(s) \in Int /\ \A i \in (k + 1)..Len(s) : s[i] \in S
      BY <2>1, <2>2
    <3>2. /\ r \in Seq(S) /\ Len(r) = IF k + 1 <= Len(s) THEN Len(s) - (k + 1) + 1 ELSE 0
          /\ \A i \in 1..(Len(s) - (k + 1) + 1) : r[i] = s[(k + 1) + i - 1]
      BY <3>1, SubSeqProperties
    <3>3. Len(s) - (k + 1) + 1 = Len(s) - k /\ \A i \in 1..(Len(s) - k) : (k + 1) + i - 1 = k + i
      BY <2>1, <2>2
    <3>4. Len(r) = Len(s) - k
      <4> HIDE DEF r
      <4>1. CASE k + 1 <= Len(s)
        BY <2>1, <2>2, <3>2, <4>1
      <4>2. CASE k = Len(s)
        BY <2>1, <2>2, <3>2, <4>2
      <4>3. \A n \in Nat : \A i \in 1..n : i + 1 <= n \/ i = n
        OBVIOUS
      <4> QED BY <2>1, <2>2, <4>1, <4>2, <4>3
    <3>5. \A i \in 1..(Len(s) - k) : r[i] = s[k + i]
      BY <3>2, <3>3
    <3> QED BY <3>2, <3>4, <3>5
  <2> HIDE DEF l, r
  <2>6. /\ c \in Seq(S) /\ Len(c) = Len(l) + Len(r)
        /\ \A i \in 1..(Len(l) + Len(r)) : c[i] = IF i <= Len(l) THEN l[i] ELSE r[i - Len(l)]
    BY <2>4, <2>5, ConcatProperties
  <2> HIDE DEF c
  <2>7. /\ c \in Seq(S) /\ DOMAIN c = 1..(Len(s) - 1)
        /\ \A i \in 1..(k - 1) : c[i] = s[i]
        /\ \A i \in k..(Len(s) - 1) : c[i] = s[i + 1]
    <3>1. DOMAIN c = 1..(Len(s) - 1)
      BY <2>1, <2>2, <2>4, <2>5, <2>6, LenProperties
    <3>2. ASSUME NEW i \in 1..(k - 1) PROVE c[i] = s[i]
      <4>1. i \in 1..(Len(l) + Len(r)) /\ i <= Len(l)
        BY <2>1, <2>2, <2>4, <2>5
      <4> QED BY <2>4, <2>6, <4>1
    <3>3. ASSUME NEW i \in k..(Len(s) - 1) PROVE c[i] = s[i + 1]
      <4>1. /\ i \in 1..(Len(l) + Len(r)) /\ ~(i <= Len(l))
            /\ i - Len(l) \in 1..(Len(s) - k) /\ k + (i - Len(l)) = i + 1
        BY <2>1, <2>2, <2>4, <2>5
      <4> QED BY <2>5, <2>6, <4>1
    <3> QED BY <2>6, <3>1, <3>2, <3>3
  <2>8. ASSUME NEW i \in DOMAIN c
        PROVE  \E j \in 1..Len(s) : j # k /\ c[i] = s[j] /\ (j < k => j = i) /\ (j > k => j = i + 1)
    <3>1. CASE i < k
      BY <2>1, <2>2, <2>7, <3>1
    <3>2. CASE i >= k
      <4>1. i \in k..(Len(s) - 1) /\ i + 1 \in 1..Len(s) /\ i + 1 > k
        BY <2>1, <2>2, <2>7, <3>2
      <4> QED BY <2>2, <2>7, <4>1
    <3> QED BY <2>2, <2>7, <3>1, <3>2
  <2>9. ASSUME NEW y \in ToSet(c) PROVE y \in ToSet(s) \ {x}
    <3>1. PICK i \in DOMAIN c : c[i] = y
      BY <2>9 DEF ToSet
    <3> QED BY <2>0, <2>1, <2>2, <2>8, <3>1 DEF ToSet
  <2>10. ASSUME NEW y \in ToSet(s) \ {x} PROVE y \in ToSet(c)
    <3>1. PICK j \in 1..Len(s) : s[j] = y /\ j # k
      BY <2>1, <2>2, <2>10 DEF ToSet
    <3>2. CASE j < k
      <4>1. j \in DOMAIN c /\ c[j] = y
        BY <2>1, <2>2, <2>7, <3>1, <3>2
      <4> QED BY <4>1 DEF ToSet
    <3>3. CASE j > k
      <4>1. j - 1 \in k..(Len(s) - 1) /\ j - 1 \in DOMAIN c /\ (j - 1) + 1 = j
        BY <2>1, <2>2, <2>7, <3>3
      <4>2. c[j - 1] = y
        BY <2>7, <3>1, <4>1
      <4> QED BY <4>1, <4>2 DEF ToSet
    <3> QED BY <2>2, <3>1, <3>2, <3>3
  <2>11. IsInjective(c)
    <3> SUFFICES ASSUME NEW i \in DOMAIN c, NEW j \in DOMAIN c, c[i] = c[j] PROVE i = j
      BY DEF IsInjective
    <3>1. PICK a \in 1..Len(s) : a # k /\ c[i] = s[a] /\ (a < k => a = i) /\ (a > k => a = i + 1)
      BY <2>8
    <3>2. PICK b \in 1..Len(s) : b # k /\ c[j] = s[b] /\ (b < k => b = j) /\ (b > k => b = j + 1)
      BY <2>8
    <3>3. a = b
      BY <2>0, <2>1, <3>1, <3>2
    <3> QED BY <2>2, <2>7, <3>1, <3>2, <3>3
  <2> QED BY <2>3, <2>7, <2>9, <2>10, <2>11
<1> QED BY <1>1, <1>2

-----------------------------------------------------------------------------
(* What the operations of the condition do to who is listed, asleep or     *)
(* coming.                                                                 *)

LineOK == LineTypeOK /\ LineSound

\* Who runs its method, or is back from its wait(), is not listed.
LEMMA NotListed ==
  ASSUME LineOK, NEW t \in Threads, phase[t] = "run" \/ Back(t)
  PROVE  t \notin ToSet(line) /\ t \notin Asleep
BY DEF LineOK, LineSound, Back, Asleep

\* A list l of waiters, and the phases p, that notify() can find.
Lined(l, p) ==
  /\ l \in Seq(Threads) /\ IsInjective(l)
  /\ p \in [Threads -> Phases]
  /\ \A u \in Threads : p[u] = "asleep" <=> u \in Asleep
  /\ \A u \in Asleep : u \in ToSet(l)
  /\ \A u \in ToSet(l) : p[u] \in {"asleep", "expired"}
  /\ \A u \in Threads : p[u] = "expired" => timed[u]

LEMMA LineLined ==
  ASSUME LineOK
  PROVE  /\ Lined(line, phase) /\ Asleep \subseteq Threads /\ missed \subseteq Asleep
         /\ timed \in [Threads -> BOOLEAN]
BY DEF LineOK, LineTypeOK, LineSound, Lined, Asleep

\* A waiter that timed out and takes itself off leaves such a list.
LEMMA DisturbedLined ==
  ASSUME NEW l, NEW p, Lined(l, p), NEW u \in Threads, p[u] = "expired"
  PROVE  /\ Lined(RemoveFirst(l, u), [p EXCEPT ![u] = "left"])
         /\ \A v \in Threads \ {u} : [p EXCEPT ![u] = "left"][v] = p[v]
         /\ [p EXCEPT ![u] = "left"][u] = "left"
<1> DEFINE r == RemoveFirst(l, u)
           q == [p EXCEPT ![u] = "left"]
<1>1. /\ l \in Seq(Threads) /\ IsInjective(l) /\ p \in [Threads -> Phases]
      /\ \A v \in Threads : p[v] = "asleep" <=> v \in Asleep
      /\ \A v \in Asleep : v \in ToSet(l)
      /\ \A v \in ToSet(l) : p[v] \in {"asleep", "expired"}
      /\ \A v \in Threads : p[v] = "expired" => timed[v]
  BY DEF Lined
<1>2. r \in Seq(Threads) /\ ToSet(r) = ToSet(l) \ {u} /\ IsInjective(r)
  BY <1>1, RemoveList
<1>3. q \in [Threads -> Phases] /\ q[u] = "left" /\ \A v \in Threads \ {u} : q[v] = p[v]
  BY <1>1 DEF Phases
<1>4. u \notin Asleep
  BY <1>1
<1>5. \A v \in ToSet(l) : v \in Threads
  BY <1>1, ListMembers
<1> HIDE DEF r, q
<1>6. Lined(r, q)
  BY <1>1, <1>2, <1>3, <1>4, <1>5 DEF Lined
<1> QED BY <1>3, <1>6 DEF r, q

LEMMA WakeTypes ==
  ASSUME timed \in [Threads -> BOOLEAN], NEW p \in [Threads -> Phases],
         NEW t \in Threads, p[t] # "asleep", NEW S, Wake(t, S, p)
  PROVE  /\ phase' \in [Threads -> Phases] /\ timed' \in [Threads -> BOOLEAN]
         /\ phase'[t] = "run" /\ timed'[t] = FALSE
         /\ \A u \in Threads \ {t} :
              /\ phase'[u] = IF u \in S /\ p[u] = "asleep" THEN "notified" ELSE p[u]
              /\ timed'[u] = timed[u]
         /\ missed' = missed \ S
<1>1. /\ timed' \in [Threads -> BOOLEAN] /\ timed'[t] = FALSE /\ missed' = missed \ S
      /\ \A u \in Threads \ {t} : timed'[u] = timed[u]
  BY DEF Wake
<1> DEFINE next(u) == CASE u = t -> "run"
                        [] u \in S /\ p[u] = "asleep" -> "notified"
                        [] OTHER -> p[u]
<1>2. phase' = [u \in Threads |-> next(u)]
  BY DEF Wake
<1>3. next(t) = "run" /\ \A u \in Threads \ {t} :
         next(u) = IF u \in S /\ p[u] = "asleep" THEN "notified" ELSE p[u]
  OBVIOUS
<1>4. \A u \in Threads : next(u) \in Phases
  <2> SUFFICES ASSUME NEW u \in Threads PROVE next(u) \in Phases
    OBVIOUS
  <2> HIDE DEF next
  <2>1. p[u] \in Phases
    OBVIOUS
  <2> QED BY <1>3, <2>1 DEF Phases
<1> HIDE DEF next
<1> QED BY <1>1, <1>2, <1>3, <1>4

LEMMA NotifyNobodyLine ==
  ASSUME LineOK, NEW t \in Threads, phase[t] = "run" \/ Back(t), NotifyNobody(t)
  PROVE  /\ LineOK' /\ Asleep' = Asleep /\ Coming' = Coming \ {t} /\ missed' = missed
         /\ phase'[t] = "run" /\ timed'[t] = FALSE
         /\ \A u \in Threads \ {t} : phase'[u] = phase[u] /\ timed'[u] = timed[u]
<1>1. /\ phase' \in [Threads -> Phases] /\ timed' \in [Threads -> BOOLEAN]
      /\ phase'[t] = "run" /\ timed'[t] = FALSE /\ missed' = missed
      /\ \A u \in Threads \ {t} : phase'[u] = phase[u] /\ timed'[u] = timed[u]
  <2> DEFINE none == {}
  <2>1. /\ timed \in [Threads -> BOOLEAN] /\ phase \in [Threads -> Phases]
        /\ phase[t] # "asleep" /\ Wake(t, none, phase)
    BY DEF LineOK, LineTypeOK, NotifyNobody, Back
  <2>2. \A u \in Threads : u \notin none
    OBVIOUS
  <2>3. missed \ none = missed
    OBVIOUS
  <2> HIDE DEF none
  <2>4. /\ phase' \in [Threads -> Phases] /\ timed' \in [Threads -> BOOLEAN]
        /\ phase'[t] = "run" /\ timed'[t] = FALSE
        /\ \A u \in Threads \ {t} :
             /\ phase'[u] = IF u \in none /\ phase[u] = "asleep" THEN "notified" ELSE phase[u]
             /\ timed'[u] = timed[u]
        /\ missed' = missed \ none
    BY <2>1, WakeTypes
  <2> QED BY <2>2, <2>3, <2>4
<1>2. line' = line
  BY DEF NotifyNobody
<1>3. t \notin ToSet(line) /\ t \notin Asleep
  BY NotListed
<1>4. LineTypeOK'
  BY <1>1, <1>2 DEF LineOK, LineTypeOK
<1>5. \A u \in ToSet(line) : u \in Threads
  BY ListMembers DEF LineOK, LineTypeOK
<1>6. Asleep' = Asleep
  BY <1>1, <1>3 DEF Asleep
<1>7. LineSound'
  BY <1>1, <1>2, <1>3, <1>5, <1>6 DEF LineOK, LineSound
<1>8. Coming' = Coming \ {t}
  BY <1>1, <1>2 DEF Coming
<1> QED BY <1>1, <1>4, <1>6, <1>7, <1>8 DEF LineOK

LEMMA WakeOneTypes ==
  ASSUME LineTypeOK, NEW t \in Threads, phase[t] = "run", NEW h, Wake(t, {h}, phase)
  PROVE  /\ phase' \in [Threads -> Phases] /\ timed' \in [Threads -> BOOLEAN]
         /\ phase'[t] = "run" /\ missed' = missed \ {h}
         /\ \A u \in Threads \ {t} :
              /\ phase'[u] = IF u \in {h} /\ phase[u] = "asleep" THEN "notified" ELSE phase[u]
              /\ timed'[u] = timed[u]
<1> DEFINE S == {h}
<1>1. /\ timed \in [Threads -> BOOLEAN] /\ phase \in [Threads -> Phases]
      /\ phase[t] # "asleep" /\ Wake(t, S, phase)
  BY DEF LineTypeOK
<1> HIDE DEF S
<1>2. /\ phase' \in [Threads -> Phases] /\ timed' \in [Threads -> BOOLEAN]
      /\ phase'[t] = "run" /\ timed'[t] = FALSE
      /\ \A u \in Threads \ {t} :
           /\ phase'[u] = IF u \in S /\ phase[u] = "asleep" THEN "notified" ELSE phase[u]
           /\ timed'[u] = timed[u]
      /\ missed' = missed \ S
  BY <1>1, WakeTypes
<1> QED BY <1>2 DEF S

\* A notify() that succeeds, with somebody listed.
LEMMA NotifyOneLine ==
  ASSUME LineOK, NEW t \in Threads, phase[t] = "run", line # <<>>,
         Wake(t, {Head(line)}, phase), line' = Tail(line)
  PROVE  /\ LineOK' /\ Coming' = Coming \cup {Head(line)} /\ Head(line) \notin Coming
         /\ Asleep' = Asleep \ {Head(line)} /\ missed' = missed \ {Head(line)}
<1> DEFINE h == Head(line)
           r == Tail(line)
<1>1. line' = r /\ Wake(t, {h}, phase)
  OBVIOUS
<1>3. /\ h \in Threads /\ r \in Seq(Threads)
      /\ ToSet(line) = ToSet(r) \cup {h}
      /\ h \notin ToSet(r) /\ IsInjective(r)
  BY TailList DEF LineOK, LineTypeOK, LineSound
<1> HIDE DEF h, r
<1>2. /\ phase' \in [Threads -> Phases] /\ timed' \in [Threads -> BOOLEAN]
      /\ phase'[t] = "run" /\ missed' = missed \ {h}
      /\ \A u \in Threads \ {t} :
           /\ phase'[u] = IF u \in {h} /\ phase[u] = "asleep" THEN "notified" ELSE phase[u]
           /\ timed'[u] = timed[u]
  BY <1>1, WakeOneTypes DEF LineOK
<1>4. t \notin ToSet(line) /\ t # h /\ t \notin Asleep
  BY <1>3, NotListed
<1>5. \A u \in ToSet(r) : u \in Threads
  BY <1>3, ListMembers
<1>6. LineTypeOK'
  BY <1>1, <1>2, <1>3 DEF LineOK, LineTypeOK
<1>8. phase[h] \in {"asleep", "expired"} /\ phase'[h] \in {"notified", "expired"}
  BY <1>2, <1>3, <1>4 DEF LineOK, LineSound
<1>10. Asleep' = Asleep \ {h}
  BY <1>2, <1>4, <1>8 DEF Asleep
<1>7. LineSound'
  <2>1. missed' \subseteq Asleep'
    BY <1>2, <1>10 DEF LineOK, LineSound
  <2>2. \A u \in Threads : phase'[u] = "expired" => timed'[u]
    BY <1>2 DEF LineOK, LineSound
  <2> QED BY <1>1, <1>2, <1>3, <1>4, <1>5, <2>1, <2>2 DEF LineOK, LineSound
<1>9. Coming' = Coming \cup {h}
  <2>1. \A u \in Threads \ {t, h} : phase'[u] = phase[u] /\ (u \in ToSet(line') <=> u \in ToSet(line))
    BY <1>1, <1>2, <1>3
  <2>2. h \in Coming' /\ t \notin Coming' /\ t \notin Coming
    BY <1>1, <1>2, <1>3, <1>4, <1>8 DEF Coming
  <2>3. ASSUME NEW u \in Threads \ {t, h} PROVE u \in Coming' <=> u \in Coming
    BY <2>1 DEF Coming
  <2> QED BY <1>3, <2>2, <2>3 DEF Coming
<1> QED BY <1>2, <1>3, <1>6, <1>7, <1>9, <1>10 DEF LineOK, Coming, h

\* A notify() that raises: a thread that had timed out is off the list, and who
\* slept sleeps.
LEMMA NotifyRaisesLine ==
  ASSUME LineOK, NEW l, NEW p, Lined(l, p), NEW t \in Threads,
         p[t] \in {"run", "notified", "left"}, NotifyRaises(t, l, p)
  PROVE  /\ LineOK' /\ Asleep' = Asleep /\ missed' = Asleep
         /\ phase'[t] = "run" /\ timed'[t] = FALSE
         /\ \A u \in Threads \ {t} :
              /\ phase'[u] = p[u] \/ (p[u] = "expired" /\ phase'[u] = "left")
              /\ timed'[u] = timed[u]
<1>1. PICK u \in Disturbers(l, p) :
        /\ line' = RemoveFirst(l, u)
        /\ phase' = [p EXCEPT ![u] = "left", ![t] = "run"]
        /\ timed' = [timed EXCEPT ![t] = FALSE]
        /\ missed' = Asleep
  BY DEF NotifyRaises
<1> DEFINE r == RemoveFirst(l, u)
           q == [p EXCEPT ![u] = "left"]
<1>2. u \in Threads /\ p[u] = "expired" /\ u # t
  BY DEF Disturbers
<1>3. /\ Lined(r, q) /\ q[u] = "left"
      /\ \A v \in Threads \ {u} : q[v] = p[v]
  BY <1>2, DisturbedLined
<1>4. phase' = [q EXCEPT ![t] = "run"] /\ line' = r
  BY <1>1, <1>2 DEF Lined
<1> HIDE DEF r, q
<1>5. timed \in [Threads -> BOOLEAN] /\ Asleep \subseteq Threads
  BY LineLined
<1>6. /\ q \in [Threads -> Phases] /\ r \in Seq(Threads) /\ IsInjective(r)
      /\ \A v \in Threads : q[v] = "asleep" <=> v \in Asleep
      /\ \A v \in Asleep : v \in ToSet(r)
      /\ \A v \in ToSet(r) : q[v] \in {"asleep", "expired"} /\ v \in Threads
      /\ \A v \in Threads : q[v] = "expired" => timed[v]
  <2>1. r \in Seq(Threads) /\ q \in [Threads -> Phases]
    BY <1>3 DEF Lined
  <2>2. \A v \in ToSet(r) : v \in Threads
    BY <2>1, ListMembers
  <2> QED BY <1>3, <2>1, <2>2 DEF Lined
<1>7. /\ phase' \in [Threads -> Phases] /\ phase'[t] = "run"
      /\ \A v \in Threads \ {t} : phase'[v] = q[v]
      /\ timed' \in [Threads -> BOOLEAN] /\ timed'[t] = FALSE
      /\ \A v \in Threads \ {t} : timed'[v] = timed[v]
  BY <1>1, <1>4, <1>5, <1>6 DEF Phases
<1>8. q[t] \in {"run", "notified", "left"}
  BY <1>2, <1>3
<1>9. Asleep' = Asleep
  BY <1>5, <1>6, <1>7, <1>8 DEF Asleep
<1>10. LineTypeOK'
  BY <1>1, <1>4, <1>5, <1>6, <1>7 DEF LineTypeOK
<1>11. LineSound'
  <2>1. \A v \in ToSet(r) : v # t
    BY <1>6, <1>8
  <2>2. \A v \in Threads : phase'[v] = "asleep" => v \in Asleep
    BY <1>6, <1>7
  <2>3. \A v \in Threads : phase'[v] = "expired" => timed'[v]
    BY <1>6, <1>7
  <2> QED BY <1>1, <1>4, <1>6, <1>7, <1>9, <2>1, <2>2, <2>3 DEF LineSound
<1> QED BY <1>1, <1>2, <1>3, <1>7, <1>9, <1>10, <1>11 DEF LineOK

\* A notify_all() that succeeds.
LEMMA WakeAllLine ==
  ASSUME LineOK, NEW l, NEW p, Lined(l, p), NEW t \in Threads,
         p[t] \in {"run", "notified", "left"}, WakeAll(t, l, p)
  PROVE  /\ LineOK' /\ Asleep' = {} /\ missed' = {}
         /\ phase'[t] = "run" /\ timed'[t] = FALSE
         /\ \A u \in Threads \ {t} :
              /\ phase'[u] = IF p[u] = "asleep" THEN "notified" ELSE p[u]
              /\ timed'[u] = timed[u]
<1>1. line' = <<>> /\ Wake(t, ToSet(l), p)
  BY DEF WakeAll
<1>2. /\ phase' \in [Threads -> Phases] /\ timed' \in [Threads -> BOOLEAN]
      /\ phase'[t] = "run" /\ timed'[t] = FALSE /\ missed' = missed \ ToSet(l)
      /\ \A u \in Threads \ {t} :
           /\ phase'[u] = IF u \in ToSet(l) /\ p[u] = "asleep" THEN "notified" ELSE p[u]
           /\ timed'[u] = timed[u]
  <2>1. timed \in [Threads -> BOOLEAN] /\ p \in [Threads -> Phases]
    BY LineLined DEF Lined
  <2> QED BY <1>1, <2>1, WakeTypes
<1>3. \A u \in Threads \ {t} :
         phase'[u] = IF p[u] = "asleep" THEN "notified" ELSE p[u]
  BY <1>2 DEF Lined
<1>4. Asleep' = {}
  BY <1>2, <1>3 DEF Asleep
<1>5. line' \in Seq(Threads) /\ ToSet(line') = {} /\ IsInjective(line')
  BY <1>1 DEF ToSet, IsInjective
<1>6. missed' = {}
  BY <1>2, LineLined DEF Lined
<1>7. \A u \in Threads : phase'[u] = "expired" => timed'[u]
  BY <1>2, <1>3 DEF Lined
<1>8. LineTypeOK' /\ LineSound'
  BY <1>2, <1>4, <1>5, <1>6, <1>7 DEF LineTypeOK, LineSound, Asleep
<1> QED BY <1>2, <1>3, <1>4, <1>6, <1>8 DEF LineOK

\* Either way nobody sleeps on but those whom a notify() that raised has missed.
LEMMA NotifyAllFromLine ==
  ASSUME LineOK, NEW l, NEW p, Lined(l, p), NEW t \in Threads,
         p[t] \in {"run", "notified", "left"}, NotifyAllFrom(t, l, p)
  PROVE  /\ LineOK' /\ Asleep' \subseteq missed'
         /\ phase'[t] = "run" /\ timed'[t] = FALSE
         /\ \A u \in Threads \ {t} :
              /\ phase'[u] = "run" <=> p[u] = "run"
              /\ timed'[u] = timed[u]
<1>1. CASE WakeAll(t, l, p)
  <2>1. /\ LineOK' /\ Asleep' = {} /\ phase'[t] = "run" /\ timed'[t] = FALSE
        /\ \A u \in Threads \ {t} :
             /\ phase'[u] = IF p[u] = "asleep" THEN "notified" ELSE p[u]
             /\ timed'[u] = timed[u]
    BY <1>1, WakeAllLine
  <2> QED BY <2>1
<1>2. CASE NotifyRaises(t, l, p)
  <2>1. /\ LineOK' /\ Asleep' = missed' /\ phase'[t] = "run" /\ timed'[t] = FALSE
        /\ \A u \in Threads \ {t} :
             /\ phase'[u] = p[u] \/ (p[u] = "expired" /\ phase'[u] = "left")
             /\ timed'[u] = timed[u]
    BY <1>2, NotifyRaisesLine
  <2> QED BY <2>1
<1> QED BY <1>1, <1>2 DEF NotifyAllFrom

LEMMA NotifyAllLine ==
  ASSUME LineOK, NEW t \in Threads, phase[t] = "run" \/ Back(t), NotifyAll(t)
  PROVE  /\ LineOK' /\ Asleep' \subseteq missed'
         /\ phase'[t] = "run" /\ timed'[t] = FALSE
         /\ \A u \in Threads \ {t} :
              /\ phase'[u] = "run" <=> phase[u] = "run"
              /\ timed'[u] = timed[u]
         /\ (\A u \in Threads : phase[u] # "expired") => Asleep' = {} /\ missed' = {}
<1>1. Lined(line, phase) /\ phase[t] \in {"run", "notified", "left"}
  BY LineLined DEF Back
<1>2. ASSUME \A u \in Threads : phase[u] # "expired" PROVE Asleep' = {} /\ missed' = {}
  <2>1. ~NotifyRaises(t, line, phase)
    BY <1>2 DEF NotifyRaises, Disturbers
  <2>2. WakeAll(t, line, phase)
    BY <2>1 DEF NotifyAll, NotifyAllFrom
  <2> QED BY <1>1, <2>2, WakeAllLine
<1> QED BY <1>1, <1>2, NotifyAllFromLine DEF NotifyAll

LEMMA SleepLine ==
  ASSUME LineOK, NEW t \in Threads, phase[t] = "run" \/ Back(t),
         NEW hasTimeout \in BOOLEAN, Sleep(t, hasTimeout)
  PROVE  /\ LineOK' /\ Asleep' = Asleep \cup {t} /\ missed' = missed
         /\ phase'[t] = "asleep" /\ timed'[t] = hasTimeout
         /\ \A u \in Threads \ {t} : phase'[u] = phase[u] /\ timed'[u] = timed[u]
<1>1. t \notin ToSet(line)
  BY NotListed
<1>2. line' \in Seq(Threads) /\ ToSet(line') = ToSet(line) \cup {t} /\ IsInjective(line')
  BY <1>1, AppendList DEF LineOK, LineTypeOK, LineSound, Sleep
<1>3. /\ phase' \in [Threads -> Phases] /\ timed' \in [Threads -> BOOLEAN]
      /\ phase'[t] = "asleep" /\ timed'[t] = hasTimeout /\ missed' = missed
      /\ \A u \in Threads \ {t} : phase'[u] = phase[u] /\ timed'[u] = timed[u]
  BY DEF LineOK, LineTypeOK, Sleep, Phases
<1>5. Asleep' = Asleep \cup {t}
  BY <1>3 DEF Asleep
<1>4. LineTypeOK' /\ LineSound'
  BY <1>2, <1>3, <1>5, ListMembers DEF LineOK, LineTypeOK, LineSound
<1> QED BY <1>3, <1>4, <1>5 DEF LineOK

LEMMA ExpireLine ==
  ASSUME LineOK, NEW t \in Threads, Expire(t)
  PROVE  /\ LineOK' /\ Asleep' = Asleep \ {t} /\ missed' = missed \ {t} /\ Coming' = Coming
         /\ phase[t] = "asleep" /\ phase'[t] = "expired" /\ timed[t] /\ timed' = timed
         /\ \A u \in Threads \ {t} : phase'[u] = phase[u]
<1>1. /\ line' = line /\ timed' = timed /\ phase[t] = "asleep" /\ timed[t]
      /\ phase' \in [Threads -> Phases] /\ phase'[t] = "expired"
      /\ \A u \in Threads \ {t} : phase'[u] = phase[u]
      /\ missed' = missed \ {t}
  BY DEF LineOK, LineTypeOK, Expire, Phases
<1>4. Asleep' = Asleep \ {t}
  BY <1>1 DEF Asleep
<1>2. LineTypeOK' /\ LineSound'
  BY <1>1, <1>4, ListMembers DEF LineOK, LineTypeOK, LineSound
<1>3. t \in ToSet(line)
  BY <1>1 DEF LineOK, LineSound
<1>5. Coming' = Coming
  BY <1>1, <1>3 DEF Coming
<1> QED BY <1>1, <1>2, <1>4, <1>5 DEF LineOK

LEMMA RemoveSelfLine ==
  ASSUME LineOK, NEW t \in Threads, RemoveSelf(t)
  PROVE  /\ LineOK' /\ Asleep' = Asleep /\ missed' = missed /\ Coming' = Coming \cup {t}
         /\ phase[t] = "expired" /\ phase'[t] = "left" /\ timed' = timed
         /\ \A u \in Threads \ {t} : phase'[u] = phase[u]
<1>1. /\ timed' = timed /\ missed' = missed /\ phase[t] = "expired"
      /\ phase' \in [Threads -> Phases] /\ phase'[t] = "left"
      /\ \A u \in Threads \ {t} : phase'[u] = phase[u]
  BY DEF LineOK, LineTypeOK, RemoveSelf, Phases
<1>2. line' \in Seq(Threads) /\ ToSet(line') = ToSet(line) \ {t} /\ IsInjective(line')
  BY RemoveList DEF LineOK, LineTypeOK, LineSound, RemoveSelf
<1>4. Asleep' = Asleep
  BY <1>1 DEF Asleep
<1>3. LineTypeOK' /\ LineSound'
  BY <1>1, <1>2, <1>4, ListMembers DEF LineOK, LineTypeOK, LineSound
<1>5. Coming' = Coming \cup {t}
  BY <1>1, <1>2 DEF Coming
<1> QED BY <1>1, <1>3, <1>4, <1>5 DEF LineOK

-----------------------------------------------------------------------------
(* Semaphore and Event.                                                    *)

SignalOK ==
  /\ object \in Semaphores \cup {"event"}
  /\ LineOK /\ SignalsTypeOK
  /\ object = "event" => value \in {0, 1}
  /\ PermitsKept /\ NoLostPermit

LEMMA ComingCounts ==
  /\ IsFiniteSet(Asleep) /\ IsFiniteSet(Coming)
  /\ Cardinality(Coming) \in Nat
BY FiniteThreads, FS_Subset, FS_CardinalityType DEF Asleep, Coming

\* A newcomer, or the thread that was woken for it, takes a free permit: one
\* permit less, and at most one thread less that comes.
LEMMA AcquireNowKeeps ==
  ASSUME SignalOK, NEW t \in Threads, AcquireNow(t), object' = object
  PROVE  SignalOK'
<1>1. /\ value > 0 /\ value' = value - 1 /\ taken' = taken + 1 /\ initial' = initial
      /\ object \in Semaphores
  BY DEF AcquireNow, Positive
<1>2. /\ LineOK' /\ Asleep' = Asleep /\ missed' = missed /\ Coming' = Coming \ {t}
  BY NotifyNobodyLine DEF SignalOK, AcquireNow
<1>3. object # "event"
  BY <1>1 DEF Semaphores
<1>4. value \in 0..MaxValue /\ initial \in 0..MaxValue /\ taken \in -MaxValue..MaxValue
      /\ value = initial - taken /\ MaxValue \in Nat
  BY <1>1, MaxValuePositive DEF SignalOK, SignalsTypeOK, PermitsKept
<1>5. SignalsTypeOK'
  BY <1>1, <1>4 DEF SignalsTypeOK
<1>6. PermitsKept'
  BY <1>1, <1>4 DEF SignalOK, PermitsKept
<1>7. Cardinality(Coming') \in Nat /\ Cardinality(Coming) \in Nat
      /\ Cardinality(Coming') >= Cardinality(Coming) - 1
  <2>1. CASE t \in Coming
    <3>1. Cardinality(Coming \ {t}) = Cardinality(Coming) - 1
      BY <2>1, ComingCounts, FS_RemoveElement
    <3>2. IsFiniteSet(Coming \ {t})
      BY ComingCounts, FS_RemoveElement
    <3>3. Cardinality(Coming \ {t}) \in Nat
      BY <3>2, FS_CardinalityType
    <3>4. Coming' = Coming \ {t}
      BY <1>2
    <3> QED BY <3>1, <3>3, <3>4, ComingCounts
  <2>2. CASE t \notin Coming
    <3>1. Coming' = Coming
      BY <1>2, <2>2
    <3> QED BY <3>1, ComingCounts
  <2> QED BY <2>1, <2>2
<1>8. NoLostPermit'
  BY <1>1, <1>2, <1>3, <1>4, <1>7 DEF SignalOK, NoLostPermit
<1> QED BY <1>1, <1>2, <1>3, <1>5, <1>6, <1>8 DEF SignalOK

\* With no permit free there is none to come for.
LEMMA NoPermitFree ==
  ASSUME SignalOK, object' = object, UNCHANGED svars, LineOK',
         object \in Semaphores => value = 0,
         object = "event" => value = 0 \/ Asleep' \ missed' \subseteq Asleep \ missed
  PROVE  SignalOK'
<1>1. value' = value /\ initial' = initial /\ taken' = taken
  BY DEF svars
<1>2. SignalsTypeOK' /\ PermitsKept'
  BY <1>1 DEF SignalOK, SignalsTypeOK, PermitsKept
<1>3. Cardinality(Coming') \in Nat
  <2>1. Coming' \subseteq Threads
    BY DEF Coming
  <2> QED BY <2>1, FiniteThreads, FS_Subset, FS_CardinalityType
<1>4. NoLostPermit'
  BY <1>1, <1>3 DEF SignalOK, NoLostPermit, Semaphores
<1> QED BY <1>1, <1>2, <1>4 DEF SignalOK

\* One permit more, and the thread at the head of the line comes for it, or is on
\* its way already because its time was up.
LEMMA ReleaseKeeps ==
  ASSUME SignalOK, NEW t \in Threads, Release(t), object' = object
  PROVE  SignalOK'
<1>1. /\ value < MaxValue /\ value' = value + 1 /\ taken' = taken - 1 /\ initial' = initial
      /\ object \in Semaphores /\ phase[t] = "run"
      /\ object = "bounded" => value < initial
  BY DEF Release
<1>2. object # "event"
  BY <1>1 DEF Semaphores
<1>3. value \in 0..MaxValue /\ initial \in 0..MaxValue /\ taken \in -MaxValue..MaxValue
      /\ value = initial - taken /\ MaxValue \in Nat
  BY <1>1, MaxValuePositive DEF SignalOK, SignalsTypeOK, PermitsKept
<1>4. SignalsTypeOK'
  BY <1>1, <1>3 DEF SignalsTypeOK
<1>5. PermitsKept'
  BY <1>1, <1>3 DEF SignalOK, PermitsKept
<1>6. LineOK' /\ NoLostPermit'
  <2>1. CASE NotifyRaises(t, line, phase)
    <3>1. LineOK' /\ Asleep' = missed'
      <4>1. LineOK /\ Lined(line, phase)
        BY LineLined DEF SignalOK
      <4> QED BY <1>1, <2>1, <4>1, NotifyRaisesLine
    <3> QED BY <1>1, <1>2, <3>1 DEF NoLostPermit
  <2>2. CASE line = <<>> /\ NotifyNobody(t)
    <3>1. LineOK' /\ Asleep' = Asleep
      BY <1>1, <2>2, NotifyNobodyLine DEF SignalOK
    <3>2. Asleep = {}
      BY <2>2 DEF SignalOK, LineOK, LineSound, Asleep, ToSet
    <3> QED BY <1>1, <1>2, <3>1, <3>2 DEF NoLostPermit
  <2>3. CASE line # <<>> /\ Wake(t, {Head(line)}, phase) /\ line' = Tail(line)
    <3>1. /\ LineOK' /\ Coming' = Coming \cup {Head(line)} /\ Head(line) \notin Coming
          /\ Asleep' = Asleep \ {Head(line)} /\ missed' = missed \ {Head(line)}
      BY <1>1, <2>3, NotifyOneLine DEF SignalOK
    <3>2. Cardinality(Coming') = Cardinality(Coming) + 1 /\ Cardinality(Coming) \in Nat
      BY <3>1, ComingCounts, FS_AddElement
    <3>3. Asleep \subseteq missed => Asleep' \subseteq missed'
      BY <3>1
    <3>4. ~(Asleep' \subseteq missed') => value' <= Cardinality(Coming')
      BY <1>1, <1>3, <3>2, <3>3 DEF SignalOK, NoLostPermit
    <3> QED BY <1>1, <1>2, <3>1, <3>4 DEF NoLostPermit
  <2> QED BY <2>1, <2>2, <2>3 DEF Release, NotifyOne, NotifyNobody
<1> QED BY <1>1, <1>2, <1>4, <1>5, <1>6 DEF SignalOK

LEMMA FlagKeeps ==
  ASSUME SignalOK, NEW t \in Threads, Set(t) \/ Clear(t), object' = object
  PROVE  SignalOK'
<1>1. object = "event" /\ object \notin Semaphores
  BY DEF Set, Clear, Semaphores
<1>2. initial' = initial /\ taken' = taken /\ value' \in {0, 1}
  BY DEF Set, Clear
<1>3. SignalsTypeOK' /\ PermitsKept'
  BY <1>1, <1>2, MaxValuePositive DEF SignalOK, SignalsTypeOK, PermitsKept
<1>4. LineOK' /\ (value' = 1 => Asleep' \subseteq missed')
  <2>1. CASE Set(t)
    BY <2>1, NotifyAllLine DEF SignalOK, Set
  <2>2. CASE Clear(t)
    <3>1. LineOK'
      BY <2>2, NotifyNobodyLine DEF SignalOK, Clear
    <3> QED BY <2>2, <3>1 DEF Clear
  <2> QED BY <2>1, <2>2
<1>5. NoLostPermit'
  BY <1>1, <1>4 DEF NoLostPermit
<1> QED BY <1>1, <1>2, <1>3, <1>4, <1>5 DEF SignalOK

LEMMA SignalsStep ==
  ASSUME SignalOK, object' = object, SignalsNext
  PROVE  SignalOK'
<1>1. PICK t \in Threads :
        \/ AcquireNow(t) \/ AcquireFails(t) \/ Release(t)
        \/ \E timeout \in BOOLEAN : AcquireWait(t, timeout) \/ EventWait(t, timeout)
        \/ EventReturn(t) \/ Set(t) \/ Clear(t)
  BY DEF SignalsNext
<1>2. object \in Semaphores => value \in Nat
  BY MaxValuePositive DEF SignalOK, SignalsTypeOK
<1>3. CASE AcquireFails(t) \/ EventReturn(t)
  <2>1. LineOK' /\ Asleep' = Asleep /\ missed' = missed /\ UNCHANGED svars
    BY <1>3, NotifyNobodyLine DEF SignalOK, AcquireFails, EventReturn
  <2>2. object \in Semaphores => value = 0
    BY <1>2, <1>3 DEF AcquireFails, EventReturn, Positive, Semaphores
  <2> QED BY <2>1, <2>2, NoPermitFree
<1>4. ASSUME NEW timeout \in BOOLEAN, AcquireWait(t, timeout) \/ EventWait(t, timeout)
      PROVE  SignalOK'
  <2>1. LineOK' /\ UNCHANGED svars
    BY <1>4, SleepLine DEF SignalOK, AcquireWait, EventWait
  <2>2. value = 0
    BY <1>2, <1>4 DEF AcquireWait, EventWait, Positive
  <2> QED BY <2>1, <2>2, NoPermitFree
<1> QED BY <1>1, <1>3, <1>4, AcquireNowKeeps, ReleaseKeeps, FlagKeeps

\* A wait() whose time is up, and which takes its waiter off the line: then it comes.
LEMMA SignalsTimeUp ==
  ASSUME SignalOK, object' = object, UNCHANGED svars,
         NEW t \in Threads, Expire(t) \/ RemoveSelf(t)
  PROVE  SignalOK'
<1>1. value' = value /\ initial' = initial /\ taken' = taken
  BY DEF svars
<1>2. SignalsTypeOK' /\ PermitsKept'
  BY <1>1 DEF SignalOK, SignalsTypeOK, PermitsKept
<1>3. /\ LineOK' /\ Asleep' \ missed' \subseteq Asleep \ missed
      /\ Coming \subseteq Coming' /\ Coming' \subseteq Threads
  BY ExpireLine, RemoveSelfLine DEF SignalOK, Coming
<1>4. /\ Cardinality(Coming) <= Cardinality(Coming')
      /\ Cardinality(Coming) \in Nat /\ Cardinality(Coming') \in Nat
  BY <1>3, FiniteThreads, FS_Subset, FS_CardinalityType
<1>5. object \in Semaphores => value \in Nat
  BY MaxValuePositive DEF SignalOK, SignalsTypeOK
<1>6. NoLostPermit'
  BY <1>1, <1>3, <1>4, <1>5 DEF SignalOK, NoLostPermit
<1> QED BY <1>1, <1>2, <1>3, <1>6 DEF SignalOK

-----------------------------------------------------------------------------
(* Barrier.                                                                *)

BarrierOK ==
  /\ object = "barrier"
  /\ LineOK /\ BarrierTypeOK
  /\ NobodyStranded /\ BarrierSound /\ CyclesApart

LEMMA GroupCounts ==
  ASSUME NEW S \in SUBSET Threads
  PROVE  /\ Cardinality(S) \in Nat /\ Cardinality(S) \in 0..Cardinality(Threads)
         /\ Cardinality(S) = 0 <=> S = {}
         /\ \A t \in S : Cardinality(S \ {t}) = Cardinality(S) - 1
         /\ \A t \in Threads \ S : Cardinality(S \cup {t}) = Cardinality(S) + 1
<1>1. IsFiniteSet(S) /\ Cardinality(S) <= Cardinality(Threads)
  BY FiniteThreads, FS_Subset
<1>2. Cardinality(S) \in Nat /\ Cardinality(Threads) \in Nat
  BY <1>1, FiniteThreads, FS_CardinalityType
<1>3. Cardinality(S) = 0 <=> S = {}
  BY <1>1, FS_EmptySet
<1>4. \A t \in S : Cardinality(S \ {t}) = Cardinality(S) - 1
  BY <1>1, FS_RemoveElement
<1>5. \A t \in Threads \ S : Cardinality(S \cup {t}) = Cardinality(S) + 1
  BY <1>1, FS_AddElement
<1> QED BY <1>1, <1>2, <1>3, <1>4, <1>5

LEMMA BarrierFacts ==
  ASSUME BarrierOK
  PROVE  /\ state \in {-2, -1, 0, 1}
         /\ place \in [Threads -> {"out", "enter", "wait"}]
         /\ index \in [Threads -> 0..Parties]
         /\ passed \subseteq cohort /\ cohort \subseteq Threads
         /\ Inside \subseteq Threads /\ Inside \subseteq cohort \ passed
         /\ count = Cardinality(Inside) /\ count \in Nat /\ Parties \in Nat \ {0}
         /\ \A t \in Threads : t \in Inside <=> place[t] = "wait"
         /\ \A t \in Threads : place[t] = "out" <=> phase[t] = "run"
         /\ \A t \in Threads : t \in Asleep <=> phase[t] = "asleep"
         /\ \A t \in Threads : timed[t] => place[t] = "wait"
         /\ Asleep \subseteq Threads /\ missed \subseteq Asleep
BY GroupCounts, PartiesPositive
DEF BarrierOK, BarrierTypeOK, BarrierSound, CyclesApart, Inside, Asleep, LineOK, LineSound

\* Where the thread is that takes a step.
LEMMA AtEntryPlace ==
  ASSUME BarrierOK, NEW t \in Threads, AtEntry(t)
  PROVE  t \notin Inside /\ (phase[t] = "run" \/ Back(t))
BY BarrierFacts DEF AtEntry

LEMMA WokenPlace ==
  ASSUME BarrierOK, NEW t \in Threads, Woken(t)
  PROVE  t \in Inside /\ Back(t) /\ count > 0 /\ Cardinality(Inside \ {t}) = count - 1
<1>1. t \in Inside /\ Back(t)
  BY BarrierFacts DEF Woken
<1>2. count = Cardinality(Inside) /\ count \in Nat /\ Inside \in SUBSET Threads
  BY BarrierFacts
<1>3. Cardinality(Inside \ {t}) = count - 1 /\ count # 0
  BY <1>1, <1>2, GroupCounts
<1> QED BY <1>1, <1>2, <1>3

LEMMA GoesPlace ==
  ASSUME BarrierOK, NEW t \in Threads, Goes(t)
  PROVE  /\ place' \in [Threads -> {"out", "enter", "wait"}]
         /\ index' \in [Threads -> 0..Parties]
         /\ place'[t] = "out"
         /\ \A u \in Threads \ {t} : place'[u] = place[u] /\ index'[u] = index[u]
         /\ Inside' = Inside \ {t}
<1>1. /\ place' \in [Threads -> {"out", "enter", "wait"}]
      /\ index' \in [Threads -> 0..Parties]
      /\ place'[t] = "out"
      /\ \A u \in Threads \ {t} : place'[u] = place[u] /\ index'[u] = index[u]
  BY BarrierFacts DEF Goes
<1>2. Inside' = Inside \ {t}
  BY <1>1 DEF Inside
<1> QED BY <1>1, <1>2

LEMMA EnterBlocksKeeps ==
  ASSUME BarrierOK, NEW t \in Threads, EnterBlocks(t), object' = object
  PROVE  BarrierOK'
<1>1. t \notin Inside /\ state \in {-1, 1}
  BY AtEntryPlace DEF EnterBlocks, Closed
<1>2. /\ LineOK' /\ Asleep' = Asleep \cup {t} /\ missed' = missed
      /\ phase'[t] = "asleep" /\ timed'[t] = FALSE
      /\ \A u \in Threads \ {t} : phase'[u] = phase[u] /\ timed'[u] = timed[u]
  BY AtEntryPlace, SleepLine DEF BarrierOK, EnterBlocks
<1>3. /\ place' \in [Threads -> {"out", "enter", "wait"}] /\ place'[t] = "enter"
      /\ \A u \in Threads \ {t} : place'[u] = place[u]
  BY BarrierFacts DEF EnterBlocks
<1>4. /\ state' = state /\ count' = count /\ index' = index
      /\ cohort' = cohort /\ passed' = passed
  BY DEF EnterBlocks
<1>5. Inside' = Inside
  BY <1>1, <1>3 DEF Inside
<1>6. BarrierTypeOK'
  BY <1>3, <1>4 DEF BarrierOK, BarrierTypeOK
<1>7. NobodyStranded'
  BY <1>1, <1>2, <1>4, <1>5, BarrierFacts DEF BarrierOK, NobodyStranded
<1>8. BarrierSound'
  BY <1>1, <1>2, <1>3, <1>4, <1>5 DEF BarrierOK, BarrierSound
<1>9. CyclesApart'
  BY <1>4, <1>5 DEF BarrierOK, CyclesApart
<1> QED BY <1>2, <1>6, <1>7, <1>8, <1>9 DEF BarrierOK

LEMMA EnterBrokenKeeps ==
  ASSUME BarrierOK, NEW t \in Threads, EnterBroken(t), object' = object
  PROVE  BarrierOK'
<1>1. t \notin Inside /\ state = -2
  BY AtEntryPlace, BarrierFacts DEF EnterBroken, Closed
<1>2. /\ LineOK' /\ Asleep' = Asleep /\ missed' = missed
      /\ phase'[t] = "run" /\ timed'[t] = FALSE
      /\ \A u \in Threads \ {t} : phase'[u] = phase[u] /\ timed'[u] = timed[u]
  BY AtEntryPlace, NotifyNobodyLine DEF BarrierOK, EnterBroken
<1>3. /\ place' \in [Threads -> {"out", "enter", "wait"}]
      /\ index' \in [Threads -> 0..Parties]
      /\ place'[t] = "out"
      /\ \A u \in Threads \ {t} : place'[u] = place[u] /\ index'[u] = index[u]
      /\ Inside' = Inside
  BY <1>1, GoesPlace DEF EnterBroken
<1>4. state' = state /\ count' = count /\ cohort' = cohort /\ passed' = passed
  BY DEF EnterBroken
<1>6. BarrierTypeOK'
  BY <1>3, <1>4 DEF BarrierOK, BarrierTypeOK
<1>7. NobodyStranded'
  <2>1. Asleep' \subseteq Inside' \cup missed' /\ Asleep' \cap Inside' \subseteq missed'
    BY <1>1, <1>2, <1>3 DEF BarrierOK, NobodyStranded
  <2> QED BY <1>1, <1>4, <2>1 DEF NobodyStranded
<1>8. BarrierSound'
  BY <1>1, <1>2, <1>3, <1>4 DEF BarrierOK, BarrierSound
<1>9. CyclesApart'
  BY <1>1, <1>3, <1>4 DEF BarrierOK, CyclesApart
<1> QED BY <1>2, <1>6, <1>7, <1>8, <1>9 DEF BarrierOK

\* One more of a cycle that is not complete: its index is new.
LEMMA ArriveKeeps ==
  ASSUME BarrierOK, NEW t \in Threads, NEW timeout \in BOOLEAN, Arrive(t, timeout),
         object' = object
  PROVE  BarrierOK'
<1>1. t \notin Inside /\ state = 0
  BY AtEntryPlace, BarrierFacts DEF Arrive, Closed
<1>2. /\ LineOK' /\ Asleep' = Asleep \cup {t} /\ missed' = missed
      /\ phase'[t] = "asleep"
      /\ \A u \in Threads \ {t} : phase'[u] = phase[u] /\ timed'[u] = timed[u]
  BY AtEntryPlace, SleepLine DEF BarrierOK, Arrive
<1>3. /\ cohort = Inside /\ passed = {} /\ count < Parties
      /\ \A u \in Inside : index[u] < count
  BY <1>1 DEF BarrierOK, BarrierSound
<1>4. /\ state' = 0 /\ count' = count + 1
      /\ cohort' = cohort \cup {t} /\ passed' = {} /\ count + 1 # Parties
  BY <1>1, <1>3 DEF Arrive
<1>5. /\ place' \in [Threads -> {"out", "enter", "wait"}] /\ place'[t] = "wait"
      /\ \A u \in Threads \ {t} : place'[u] = place[u]
  BY BarrierFacts DEF Arrive
<1>6. /\ index' \in [Threads -> 0..Parties] /\ index'[t] = count
      /\ \A u \in Threads \ {t} : index'[u] = index[u]
  <2>1. count \in 0..Parties
    BY <1>3, BarrierFacts
  <2> QED BY <2>1, BarrierFacts DEF Arrive
<1>7. Inside' = Inside \cup {t}
  BY <1>5 DEF Inside
<1>8. count' = Cardinality(Inside') /\ count' \in 0..Cardinality(Threads)
  <2>1. Inside \in SUBSET Threads /\ Inside \cup {t} \in SUBSET Threads
    BY BarrierFacts
  <2>2. Cardinality(Inside \cup {t}) = Cardinality(Inside) + 1
    BY <1>1, <2>1, GroupCounts
  <2>3. Cardinality(Inside \cup {t}) \in 0..Cardinality(Threads)
    BY <2>1, GroupCounts
  <2> QED BY <1>4, <1>7, <2>2, <2>3, BarrierFacts
<1>9. BarrierTypeOK'
  BY <1>4, <1>5, <1>6, <1>8, BarrierFacts DEF BarrierTypeOK
<1>10. NobodyStranded'
  <2>1. ASSUME NEW u \in Inside' PROVE phase'[u] # "notified"
    BY <1>1, <1>2, <1>7, <2>1, BarrierFacts DEF BarrierOK, NobodyStranded
  <2>2. Asleep' \subseteq Inside' /\ missed' = {}
    BY <1>1, <1>2, <1>7 DEF BarrierOK, NobodyStranded
  <2> QED BY <1>4, <2>1, <2>2 DEF NobodyStranded
<1>11. BarrierSound'
  <2>1. /\ \A u \in Threads : place'[u] = "out" <=> phase'[u] = "run"
        /\ \A u \in Threads : timed'[u] => place'[u] = "wait"
    BY <1>2, <1>5, BarrierFacts
  <2>2. count' < Parties /\ \A u \in Inside' : index'[u] < count'
    BY <1>3, <1>4, <1>6, <1>7, BarrierFacts
  <2> QED BY <1>3, <1>4, <1>7, <2>1, <2>2 DEF BarrierSound
<1>12. CyclesApart'
  <2>1. ASSUME NEW u \in Inside', NEW v \in Inside', u # v PROVE index'[u] # index'[v]
    <3>1. CASE u # t /\ v # t
      BY <1>1, <1>6, <1>7, <2>1, <3>1, BarrierFacts DEF BarrierOK, CyclesApart
    <3>2. CASE u = t \/ v = t
      BY <1>3, <1>6, <1>7, <2>1, <3>2, BarrierFacts
    <3> QED BY <3>1, <3>2
  <2> QED BY <1>3, <1>4, <1>7, <1>8, <2>1 DEF CyclesApart
<1> QED BY <1>2, <1>9, <1>10, <1>11, <1>12 DEF BarrierOK

\* What all steps that notify everybody leave: nobody sleeps but those who were
\* missed, and nobody at all if nobody is inside, for who is not does not time out.
LEMMA AllAwake ==
  ASSUME BarrierOK, NEW t \in Threads, phase[t] = "run" \/ Back(t), NotifyAll(t)
  PROVE  /\ LineOK' /\ Asleep' \subseteq missed'
         /\ phase'[t] = "run" /\ timed'[t] = FALSE
         /\ \A u \in Threads \ {t} :
              /\ phase'[u] = "run" <=> phase[u] = "run"
              /\ timed'[u] = timed[u]
         /\ Inside \subseteq {t} => Asleep' = {} /\ missed' = {}
<1>1. ASSUME Inside \subseteq {t}, NEW u \in Threads PROVE phase[u] # "expired"
  <2>1. phase[u] = "expired" => u \in Inside
    BY BarrierFacts DEF BarrierOK, LineOK, LineSound
  <2> QED BY <1>1, <2>1 DEF Back
<1> QED BY <1>1, NotifyAllLine DEF BarrierOK

\* The parties have met: those inside and the last one are all the parties.
LEMMA TripKeeps ==
  ASSUME BarrierOK, NEW t \in Threads, NEW actionFails \in BOOLEAN, Trip(t, actionFails),
         object' = object
  PROVE  BarrierOK'
<1>1. t \notin Inside /\ state = 0 /\ count + 1 = Parties
  BY AtEntryPlace, BarrierFacts DEF Trip, Closed
<1>0. phase[t] = "run" \/ Back(t)
  BY AtEntryPlace DEF Trip
<1>2. /\ LineOK' /\ Asleep' \subseteq missed' /\ (state' # -2 => Asleep' = {} /\ missed' = {})
      /\ phase'[t] = "run" /\ timed'[t] = FALSE
      /\ \A u \in Threads \ {t} :
           /\ phase'[u] = "run" <=> phase[u] = "run"
           /\ timed'[u] = timed[u]
  <2>0. LineOK /\ Lined(line, phase) /\ phase[t] \in {"run", "notified", "left"}
    BY <1>0, LineLined DEF BarrierOK, Back
  <2>1. CASE state' = -2 /\ NotifyAll(t)
    BY <1>0, <2>1, AllAwake
  <2>2. ASSUME NEW v \in Disturbers(line, phase), state' = -2,
               NotifyAllFrom(t, RemoveFirst(line, v), [phase EXCEPT ![v] = "left"])
        PROVE  /\ LineOK' /\ Asleep' \subseteq missed'
               /\ phase'[t] = "run" /\ timed'[t] = FALSE
               /\ \A u \in Threads \ {t} :
                    /\ phase'[u] = "run" <=> phase[u] = "run"
                    /\ timed'[u] = timed[u]
    <3> DEFINE l == RemoveFirst(line, v)
               p == [phase EXCEPT ![v] = "left"]
    <3>1. v \in Threads /\ phase[v] = "expired"
      BY DEF Disturbers
    <3>2. /\ Lined(l, p) /\ p[v] = "left"
          /\ \A u \in Threads \ {v} : p[u] = phase[u]
      BY <2>0, <3>1, DisturbedLined
    <3> HIDE DEF l, p
    <3>3. p[t] \in {"run", "notified", "left"} /\ NotifyAllFrom(t, l, p)
      BY <2>0, <2>2, <3>1, <3>2 DEF l, p
    <3>4. \A u \in Threads : p[u] = "run" <=> phase[u] = "run"
      BY <3>1, <3>2
    <3> QED BY <2>0, <3>2, <3>3, <3>4, NotifyAllFromLine
  <2>3. CASE WakeAll(t, line, phase)
    <3>1. /\ LineOK' /\ Asleep' = {} /\ missed' = {} /\ phase'[t] = "run" /\ timed'[t] = FALSE
          /\ \A u \in Threads \ {t} :
               /\ phase'[u] = IF phase[u] = "asleep" THEN "notified" ELSE phase[u]
               /\ timed'[u] = timed[u]
      BY <2>0, <2>3, WakeAllLine
    <3> QED BY <3>1
  <2> QED BY <2>1, <2>2, <2>3 DEF Trip
<1>3. /\ place' \in [Threads -> {"out", "enter", "wait"}]
      /\ index' \in [Threads -> 0..Parties]
      /\ place'[t] = "out"
      /\ \A u \in Threads \ {t} : place'[u] = place[u] /\ index'[u] = index[u]
      /\ Inside' = Inside
  BY <1>1, GoesPlace DEF Trip
<1>4. cohort = Inside /\ passed = {} /\ \A u \in Inside : index[u] < count
  BY <1>1 DEF BarrierOK, BarrierSound
<1>5. count' = count
  BY DEF Trip
<1>6. \/ state' = -2 /\ cohort' = cohort \cup {t} /\ passed' = passed
      \/ count = 0 /\ state' = 0 /\ cohort' = {} /\ passed' = passed
      \/ count # 0 /\ state' = 1 /\ cohort' = cohort \cup {t} /\ passed' = passed \cup {t}
  <2>1. state' = -2 \/ state' = IF count = 0 THEN 0 ELSE 1
    BY DEF Trip
  <2> QED BY <2>1 DEF Trip
<1>7. Cardinality(Inside \cup {t}) = Parties
  <2>1. Inside \in SUBSET Threads
    BY BarrierFacts
  <2>2. Cardinality(Inside \cup {t}) = Cardinality(Inside) + 1
    BY <1>1, <2>1, GroupCounts
  <2> QED BY <1>1, <2>2, BarrierFacts
<1>8. count = 0 => Inside = {}
  BY BarrierFacts, GroupCounts
<1>9. BarrierTypeOK'
  BY <1>3, <1>4, <1>5, <1>6, BarrierFacts DEF BarrierOK, BarrierTypeOK
<1>10. NobodyStranded'
  BY <1>2, <1>3, <1>6, <1>8 DEF NobodyStranded
<1>11. BarrierSound'
  <2>1. /\ \A u \in Threads : place'[u] = "out" <=> phase'[u] = "run"
        /\ \A u \in Threads : timed'[u] => place'[u] = "wait"
    BY <1>2, <1>3, BarrierFacts
  <2>2. state' = 0 => cohort' = Inside' /\ passed' = {} /\ count' < Parties /\ Inside' = {}
    BY <1>1, <1>3, <1>4, <1>5, <1>6, <1>8, BarrierFacts
  <2>3. state' = 1 => passed' # {} /\ count' > 0
    BY <1>5, <1>6, BarrierFacts
  <2>4. state' # -1
    BY <1>6
  <2> QED BY <2>1, <2>2, <2>3, <2>4 DEF BarrierSound
<1>12. CyclesApart'
  <2>1. count' = Cardinality(Inside')
    BY <1>3, <1>5, BarrierFacts
  <2>2. Inside' \subseteq cohort' \ passed' /\ (state' = 1 => cohort' = passed' \cup Inside')
    BY <1>1, <1>3, <1>4, <1>6, <1>8
  <2>3. passed' # {} => Cardinality(cohort') = Parties
    BY <1>4, <1>6, <1>7
  <2>4. ASSUME state' \in {0, 1}, NEW u \in Inside', NEW v \in Inside', u # v
        PROVE  index'[u] # index'[v]
    <3>1. u \in Inside /\ v \in Inside /\ u # t /\ v # t /\ u \in Threads /\ v \in Threads
      BY <1>1, <1>3, BarrierFacts
    <3>2. index[u] # index[v]
      BY <1>1, <2>4, <3>1 DEF BarrierOK, CyclesApart
    <3> QED BY <1>3, <3>1, <3>2
  <2> QED BY <2>1, <2>2, <2>3, <2>4 DEF CyclesApart
<1> QED BY <1>2, <1>9, <1>10, <1>11, <1>12 DEF BarrierOK

\* One of those inside goes; the last one out opens the barrier for everybody.
LEMMA WaitReturnsKeeps ==
  ASSUME BarrierOK, NEW t \in Threads, WaitReturns(t), object' = object
  PROVE  BarrierOK'
<1> DEFINE n == count - 1
           gone == IF state = 1 THEN {t} ELSE {}
<1>1. /\ t \in Inside /\ Back(t) /\ state # 0 /\ count > 0 /\ n = Cardinality(Inside \ {t})
  BY WokenPlace DEF WaitReturns
<1>2. /\ place' \in [Threads -> {"out", "enter", "wait"}]
      /\ index' \in [Threads -> 0..Parties]
      /\ place'[t] = "out"
      /\ \A u \in Threads \ {t} : place'[u] = place[u] /\ index'[u] = index[u]
      /\ Inside' = Inside \ {t}
  BY GoesPlace DEF WaitReturns
<1>3. /\ count' = n
      /\ IF n = 0 /\ state \in {-1, 1}
           THEN state' = 0 /\ NotifyAll(t)
           ELSE state' = state /\ NotifyNobody(t)
  BY DEF WaitReturns, Leave, Exit
<1>4. IF state' = 0 /\ state # 0
        THEN cohort' = {} /\ passed' = {}
        ELSE cohort' = cohort \cup {} /\ passed' = passed \cup gone
  BY DEF WaitReturns, History
<1>5. n \in Nat /\ n \in 0..Cardinality(Threads) /\ (n = 0 => Inside' = {}) /\ n = Cardinality(Inside')
  <2>1. Inside \ {t} \in SUBSET Threads
    BY BarrierFacts
  <2>2. /\ Cardinality(Inside \ {t}) \in Nat
        /\ Cardinality(Inside \ {t}) \in 0..Cardinality(Threads)
        /\ Cardinality(Inside \ {t}) = 0 <=> Inside \ {t} = {}
    BY <2>1, GroupCounts
  <2> HIDE DEF n
  <2> QED BY <1>1, <1>2, <2>2
<1> HIDE DEF n, gone
<1>6. /\ LineOK' /\ phase'[t] = "run" /\ timed'[t] = FALSE
      /\ \A u \in Threads \ {t} :
           /\ phase'[u] = "run" <=> phase[u] = "run"
           /\ timed'[u] = timed[u]
  <2>1. CASE NotifyAll(t)
    BY <1>1, <2>1, AllAwake
  <2>2. CASE NotifyNobody(t)
    BY <1>1, <2>2, NotifyNobodyLine DEF BarrierOK
  <2> QED BY <1>3, <2>1, <2>2
<1>7. /\ \A u \in Threads : place'[u] = "out" <=> phase'[u] = "run"
      /\ \A u \in Threads : timed'[u] => place'[u] = "wait"
  BY <1>2, <1>6, BarrierFacts
<1>8. CASE n = 0 /\ state \in {-1, 1}
  <2>0. Inside \subseteq {t}
    BY <1>2, <1>5, <1>8
  <2>1. /\ state' = 0 /\ Asleep' = {} /\ missed' = {} /\ count' = 0
        /\ cohort' = {} /\ passed' = {} /\ Inside' = {}
    BY <1>1, <1>3, <1>4, <1>5, <1>8, <2>0, AllAwake
  <2>2. BarrierTypeOK'
    BY <1>2, <1>5, <1>8, <2>1 DEF BarrierTypeOK
  <2>3. NobodyStranded'
    BY <2>1 DEF NobodyStranded
  <2>4. BarrierSound'
    BY <1>7, <2>1, PartiesPositive DEF BarrierSound
  <2>5. CyclesApart'
    BY <1>5, <1>8, <2>1 DEF CyclesApart
  <2> QED BY <1>6, <2>2, <2>3, <2>4, <2>5 DEF BarrierOK
<1>9. CASE ~(n = 0 /\ state \in {-1, 1})
  <2>1. /\ state' = state /\ NotifyNobody(t) /\ count' = n
        /\ cohort' = cohort /\ passed' = passed \cup gone
    BY <1>1, <1>3, <1>4, <1>9
  <2>2. /\ Asleep' = Asleep /\ missed' = missed
        /\ \A u \in Threads \ {t} : phase'[u] = phase[u]
    BY <1>1, <2>1, NotifyNobodyLine DEF BarrierOK
  <2>3. gone \subseteq cohort /\ gone \cap Inside' = {} /\ (state = 1 <=> gone = {t}) /\ (state # 1 => gone = {})
    BY <1>1, <1>2, BarrierFacts DEF gone
  <2>4. BarrierTypeOK'
    BY <1>2, <1>5, <2>1, <2>3, BarrierFacts DEF BarrierTypeOK
  <2>5. NobodyStranded'
    <3>1. Asleep' \cap Inside' \subseteq missed'
      BY <1>1, <1>2, <2>2 DEF BarrierOK, NobodyStranded
    <3>2. t \notin Asleep
      BY <1>1, BarrierFacts DEF Back
    <3>3. state = -2 => Asleep' \subseteq Inside' \cup missed'
      BY <1>2, <2>2, <3>2 DEF BarrierOK, NobodyStranded
    <3> QED BY <1>1, <1>2, <1>6, <2>1, <2>2, <3>1, <3>3 DEF BarrierOK, NobodyStranded
  <2>6. BarrierSound'
    <3>1. state = 1 => passed' # {}
      BY <2>1, <2>3
    <3>2. state \in {-1, 1} => count' > 0
      BY <1>5, <1>9, <2>1
    <3> QED BY <1>1, <1>7, <2>1, <3>1, <3>2 DEF BarrierSound
  <2>7. CyclesApart'
    <3>1. Inside' \subseteq cohort' \ passed'
      BY <1>2, <2>1, <2>3, BarrierFacts
    <3>2. passed' # {} => Cardinality(cohort') = Parties
      <4>1. CASE passed # {}
        BY <2>1, <4>1 DEF BarrierOK, CyclesApart
      <4>2. CASE passed = {}
        BY <2>1, <2>3, <4>2 DEF BarrierOK, BarrierSound, CyclesApart
      <4> QED BY <4>1, <4>2
    <3>3. state' = 1 => cohort' = passed' \cup Inside'
      BY <1>1, <1>2, <2>1, <2>3 DEF BarrierOK, CyclesApart
    <3>4. ASSUME state' \in {0, 1}, NEW u \in Inside', NEW v \in Inside', u # v
          PROVE  index'[u] # index'[v]
      <4>1. u \in Inside /\ v \in Inside /\ u # t /\ v # t /\ u \in Threads /\ v \in Threads
        BY <1>2, BarrierFacts
      <4>2. index[u] # index[v]
        BY <2>1, <3>4, <4>1 DEF BarrierOK, CyclesApart
      <4> QED BY <1>2, <4>1, <4>2
    <3> QED BY <1>5, <2>1, <3>1, <3>2, <3>3, <3>4 DEF CyclesApart
  <2> QED BY <1>6, <2>4, <2>5, <2>6, <2>7 DEF BarrierOK
<1> QED BY <1>8, <1>9

LEMMA WaitAgainKeeps ==
  ASSUME BarrierOK, NEW t \in Threads, WaitAgain(t), object' = object
  PROVE  BarrierOK'
<1>1. t \in Inside /\ Back(t) /\ state = 0
  BY WokenPlace DEF WaitAgain
<1>2. /\ LineOK' /\ Asleep' = Asleep \cup {t} /\ missed' = missed
      /\ phase'[t] = "asleep" /\ timed'[t] = timed[t]
      /\ \A u \in Threads \ {t} : phase'[u] = phase[u] /\ timed'[u] = timed[u]
  <2>1. timed[t] \in BOOLEAN
    BY DEF BarrierOK, LineOK, LineTypeOK
  <2> QED BY <1>1, <2>1, SleepLine DEF BarrierOK, WaitAgain
<1>3. /\ state' = state /\ count' = count /\ place' = place /\ index' = index
      /\ cohort' = cohort /\ passed' = passed /\ Inside' = Inside
  BY DEF WaitAgain, bvars, Inside
<1>4. BarrierTypeOK'
  BY <1>3 DEF BarrierOK, BarrierTypeOK
<1>5. NobodyStranded'
  <2>1. ASSUME NEW u \in Inside PROVE phase'[u] # "notified"
    BY <1>1, <1>2, BarrierFacts DEF BarrierOK, NobodyStranded
  <2>2. Asleep \cup {t} \subseteq Inside /\ missed = {}
    BY <1>1 DEF BarrierOK, NobodyStranded
  <2> QED BY <1>1, <1>2, <1>3, <2>1, <2>2 DEF NobodyStranded
<1>6. BarrierSound'
  <2>1. /\ \A u \in Threads : place[u] = "out" <=> phase'[u] = "run"
        /\ \A u \in Threads : timed'[u] => place[u] = "wait"
    BY <1>1, <1>2, BarrierFacts
  <2> QED BY <1>3, <2>1 DEF BarrierOK, BarrierSound
<1>7. CyclesApart'
  BY <1>3 DEF BarrierOK, CyclesApart
<1> QED BY <1>2, <1>4, <1>5, <1>6, <1>7 DEF BarrierOK

LEMMA WaitTimesOutKeeps ==
  ASSUME BarrierOK, NEW t \in Threads, WaitTimesOut(t), object' = object
  PROVE  BarrierOK'
<1>1. /\ t \in Inside /\ Back(t) /\ state = 0 /\ Cardinality(Inside \ {t}) = count - 1
  BY WokenPlace DEF WaitTimesOut, OutOfTime
<1>2. /\ LineOK' /\ Asleep' \subseteq missed'
      /\ phase'[t] = "run" /\ timed'[t] = FALSE
      /\ \A u \in Threads \ {t} :
           /\ phase'[u] = "run" <=> phase[u] = "run"
           /\ timed'[u] = timed[u]
  BY <1>1, AllAwake DEF WaitTimesOut
<1>3. /\ place' \in [Threads -> {"out", "enter", "wait"}]
      /\ index' \in [Threads -> 0..Parties]
      /\ place'[t] = "out"
      /\ \A u \in Threads \ {t} : place'[u] = place[u] /\ index'[u] = index[u]
      /\ Inside' = Inside \ {t}
  BY GoesPlace DEF WaitTimesOut
<1>4. state' = -2 /\ count' = count - 1 /\ cohort' = cohort /\ passed' = passed
  BY DEF WaitTimesOut
<1>5. count' = Cardinality(Inside') /\ count' \in 0..Cardinality(Threads)
  <2>1. Inside \ {t} \in SUBSET Threads
    BY BarrierFacts
  <2>2. Cardinality(Inside \ {t}) \in 0..Cardinality(Threads)
    BY <2>1, GroupCounts
  <2> QED BY <1>1, <1>3, <1>4, <2>2
<1>6. BarrierTypeOK'
  BY <1>3, <1>4, <1>5, BarrierFacts DEF BarrierTypeOK
<1>7. NobodyStranded'
  BY <1>2, <1>4 DEF NobodyStranded
<1>8. BarrierSound'
  BY <1>2, <1>3, <1>4, BarrierFacts DEF BarrierSound
<1>9. CyclesApart'
  BY <1>3, <1>4, <1>5, BarrierFacts DEF BarrierOK, CyclesApart
<1> QED BY <1>2, <1>6, <1>7, <1>8, <1>9 DEF BarrierOK

\* reset(): with nobody inside a new cycle begins, or goes on with nobody.
LEMMA ResetKeeps ==
  ASSUME BarrierOK, NEW t \in Threads, Reset(t), object' = object
  PROVE  BarrierOK'
<1>1. place[t] = "out" /\ phase[t] = "run" /\ t \notin Inside
  BY BarrierFacts DEF Reset
<1>2. /\ LineOK' /\ Asleep' \subseteq missed'
      /\ phase'[t] = "run" /\ timed'[t] = FALSE
      /\ \A u \in Threads \ {t} :
           /\ phase'[u] = "run" <=> phase[u] = "run"
           /\ timed'[u] = timed[u]
  BY <1>1, AllAwake DEF Reset
<1>3. /\ count' = count /\ place' = place /\ index' = index /\ Inside' = Inside
      /\ state' = ResetState
      /\ IF state' = 0 /\ state # 0
            THEN cohort' = {} /\ passed' = {}
            ELSE cohort' = cohort \cup {} /\ passed' = passed \cup {}
  BY DEF Reset, History, Inside
<1>4. /\ count = 0 <=> Inside = {}
      /\ count \in Nat
  BY BarrierFacts, GroupCounts
<1>5. /\ \A u \in Threads : place'[u] = "out" <=> phase'[u] = "run"
      /\ \A u \in Threads : timed'[u] => place'[u] = "wait"
  BY <1>1, <1>2, <1>3, BarrierFacts
<1>6. CASE count = 0
  <2>1. state' = 0 /\ Inside = {}
    BY <1>3, <1>4, <1>6 DEF ResetState
  <2>2. cohort' = {} /\ passed' = {}
    BY <1>3, <2>1 DEF BarrierOK, BarrierSound
  <2>3. BarrierTypeOK'
    BY <1>3, <2>1, <2>2 DEF BarrierOK, BarrierTypeOK
  <2>4. NobodyStranded'
    <3>1. Asleep' = {} /\ missed' = {}
      BY <1>1, <2>1, AllAwake DEF Reset
    <3> QED BY <1>3, <2>1, <3>1 DEF NobodyStranded
  <2>5. BarrierSound'
    BY <1>3, <1>5, <1>6, <2>1, <2>2, PartiesPositive DEF BarrierSound
  <2>6. CyclesApart'
    BY <1>3, <2>1, <2>2, BarrierFacts DEF CyclesApart
  <2> QED BY <1>2, <2>3, <2>4, <2>5, <2>6 DEF BarrierOK
<1>7. CASE count > 0
  <2>1. /\ state' = IF state \in {0, -2} THEN -1 ELSE state
        /\ state' \notin {0, -2} /\ cohort' = cohort /\ passed' = passed
        /\ state' = 1 => state = 1
        /\ state' \in {-2, -1, 0, 1}
    BY <1>3, <1>7, BarrierFacts DEF ResetState
  <2>2. BarrierTypeOK'
    BY <1>3, <2>1 DEF BarrierOK, BarrierTypeOK
  <2>3. NobodyStranded'
    BY <1>2, <2>1 DEF NobodyStranded
  <2>4. BarrierSound'
    BY <1>3, <1>5, <1>7, <2>1 DEF BarrierOK, BarrierSound
  <2>5. CyclesApart'
    BY <1>3, <2>1 DEF BarrierOK, CyclesApart
  <2> QED BY <1>2, <2>2, <2>3, <2>4, <2>5 DEF BarrierOK
<1> QED BY <1>4, <1>6, <1>7

LEMMA AbortKeeps ==
  ASSUME BarrierOK, NEW t \in Threads, Abort(t), object' = object
  PROVE  BarrierOK'
<1>1. place[t] = "out" /\ phase[t] = "run"
  BY BarrierFacts DEF Abort
<1>2. /\ LineOK' /\ Asleep' \subseteq missed'
      /\ phase'[t] = "run" /\ timed'[t] = FALSE
      /\ \A u \in Threads \ {t} :
           /\ phase'[u] = "run" <=> phase[u] = "run"
           /\ timed'[u] = timed[u]
  BY <1>1, AllAwake DEF Abort
<1>3. /\ state' = -2 /\ count' = count /\ place' = place /\ index' = index
      /\ cohort' = cohort /\ passed' = passed /\ Inside' = Inside
  BY DEF Abort, Inside
<1>4. BarrierTypeOK'
  BY <1>3 DEF BarrierOK, BarrierTypeOK
<1>5. NobodyStranded'
  BY <1>2, <1>3 DEF NobodyStranded
<1>6. BarrierSound'
  BY <1>1, <1>2, <1>3, BarrierFacts DEF BarrierSound
<1>7. CyclesApart'
  BY <1>3 DEF BarrierOK, CyclesApart
<1> QED BY <1>2, <1>4, <1>5, <1>6, <1>7 DEF BarrierOK

\* A timeout alone changes nothing of the barrier: who timed out inside may be
\* anybody who slept there.
LEMMA BarrierTimeUp ==
  ASSUME BarrierOK, object' = object, UNCHANGED bvars,
         NEW t \in Threads, Expire(t) \/ RemoveSelf(t)
  PROVE  BarrierOK'
<1>1. /\ LineOK' /\ timed' = timed
      /\ \E S \in SUBSET {t} : Asleep' = Asleep \ S /\ missed' = missed \ S
      /\ phase[t] \in {"asleep", "expired"} /\ phase'[t] \in {"expired", "left"}
      /\ \A u \in Threads \ {t} : phase'[u] = phase[u]
  <2>1. CASE Expire(t)
    <3>1. t \in {t} /\ {t} \in SUBSET {t}
      OBVIOUS
    <3> QED BY <2>1, <3>1, ExpireLine DEF BarrierOK
  <2>2. CASE RemoveSelf(t)
    <3>1. {} \in SUBSET {t} /\ Asleep \ {} = Asleep /\ missed \ {} = missed
      OBVIOUS
    <3>2. /\ LineOK' /\ timed' = timed /\ Asleep' = Asleep /\ missed' = missed
          /\ phase[t] = "expired" /\ phase'[t] = "left"
          /\ \A u \in Threads \ {t} : phase'[u] = phase[u]
      BY <2>2, RemoveSelfLine DEF BarrierOK
    <3> QED BY <3>1, <3>2
  <2> QED BY <2>1, <2>2
<1>2. /\ state' = state /\ count' = count /\ place' = place /\ index' = index
      /\ cohort' = cohort /\ passed' = passed /\ Inside' = Inside
  BY DEF bvars, Inside
<1>3. BarrierTypeOK'
  BY <1>2 DEF BarrierOK, BarrierTypeOK
<1>4. NobodyStranded'
  <2>1. ASSUME NEW u \in Inside, phase'[u] = "notified" PROVE state # 0
    BY <1>1, <2>1, BarrierFacts DEF BarrierOK, NobodyStranded
  <2>2. /\ Asleep \subseteq Inside => Asleep' \subseteq Inside
        /\ missed = {} => missed' = {}
        /\ Asleep \cap Inside \subseteq missed => Asleep' \cap Inside \subseteq missed'
        /\ Asleep \subseteq Inside \cup missed => Asleep' \subseteq Inside \cup missed'
    BY <1>1
  <2> QED BY <1>2, <2>1, <2>2 DEF BarrierOK, NobodyStranded
<1>5. BarrierSound'
  <2>1. /\ \A u \in Threads : place[u] = "out" <=> phase'[u] = "run"
        /\ \A u \in Threads : timed'[u] => place[u] = "wait"
    BY <1>1, BarrierFacts
  <2> QED BY <1>2, <2>1 DEF BarrierOK, BarrierSound
<1>6. CyclesApart'
  BY <1>2 DEF BarrierOK, CyclesApart
<1> QED BY <1>1, <1>3, <1>4, <1>5, <1>6 DEF BarrierOK

LEMMA BarrierStep ==
  ASSUME BarrierOK, object' = object, BarrierNext
  PROVE  BarrierOK'
<1>1. PICK t \in Threads :
        \/ EnterBlocks(t) \/ EnterBroken(t)
        \/ \E timeout \in BOOLEAN : Arrive(t, timeout)
        \/ \E actionFails \in BOOLEAN : Trip(t, actionFails)
        \/ WaitReturns(t) \/ WaitAgain(t) \/ WaitTimesOut(t)
        \/ Reset(t) \/ Abort(t)
  BY DEF BarrierNext
<1>2. ASSUME NEW timeout \in BOOLEAN, Arrive(t, timeout) PROVE BarrierOK'
  BY <1>2, ArriveKeeps
<1>3. ASSUME NEW actionFails \in BOOLEAN, Trip(t, actionFails) PROVE BarrierOK'
  BY <1>3, TripKeeps
<1>4. CASE EnterBlocks(t) \/ EnterBroken(t) \/ WaitReturns(t)
  BY <1>4, EnterBlocksKeeps, EnterBrokenKeeps, WaitReturnsKeeps
<1>5. CASE WaitAgain(t) \/ WaitTimesOut(t) \/ Reset(t) \/ Abort(t)
  BY <1>5, WaitAgainKeeps, WaitTimesOutKeeps, ResetKeeps, AbortKeeps
<1> QED BY <1>1, <1>2, <1>3, <1>4, <1>5

-----------------------------------------------------------------------------
(* The four objects together.                                              *)

\* What the objects that are not in use say of their part: nothing but its type.
LEMMA Parts ==
  /\ object \in Semaphores \cup {"event"} => (IInv <=> SignalOK /\ BarrierTypeOK)
  /\ object = "barrier" => (IInv <=> BarrierOK /\ SignalsTypeOK)
<1>1. CASE object \in Semaphores \cup {"event"}
  <2>1. object # "barrier"
    BY <1>1 DEF Semaphores
  <2> QED BY <1>1, <2>1 DEF IInv, NoLostWakeup, SignalOK, LineOK, NobodyStranded,
                          BarrierSound, CyclesApart
<1>2. CASE object = "barrier"
  <2>1. object # "event" /\ object \notin Semaphores
    BY <1>2 DEF Semaphores
  <2> QED BY <1>2, <2>1 DEF IInv, NoLostWakeup, BarrierOK, LineOK, NoLostPermit, PermitsKept
<1> QED BY <1>1, <1>2

LEMMA InitHolds == Init => IInv
<1> SUFFICES ASSUME Init PROVE IInv
  OBVIOUS
<1>1. LineTypeOK
  BY DEF Init, LineInit, LineTypeOK, Phases
<1>2. ToSet(line) = {} /\ Asleep = {} /\ IsInjective(line)
  BY DEF Init, LineInit, ToSet, Asleep, IsInjective
<1>3. LineSound
  BY <1>2 DEF Init, LineInit, LineSound
<1>4. /\ state = 0 /\ count = 0 /\ cohort = {} /\ passed = {}
      /\ place = [u \in Threads |-> "out"] /\ index = [u \in Threads |-> 0]
  BY DEF Init, IdleBarrier, BarrierInit
<1>5. Inside = {}
  BY <1>4 DEF Inside
<1>6. BarrierTypeOK
  <2>1. 0 \in 0..Cardinality(Threads) /\ 0 \in 0..Parties
    BY FiniteThreads, FS_CardinalityType, PartiesPositive
  <2> QED BY <1>4, <2>1 DEF BarrierTypeOK
<1>7. NobodyStranded /\ BarrierSound /\ CyclesApart
  <2>1. Cardinality(Inside) = 0
    BY <1>5, FS_EmptySet
  <2>2. BarrierSound
    <3>1. \A u \in Threads : place[u] = "out" /\ phase[u] = "run" /\ timed[u] = FALSE
      BY <1>4 DEF Init, LineInit
    <3> QED BY <1>4, <1>5, <3>1, PartiesPositive DEF BarrierSound
  <2>3. missed = {}
    BY DEF Init, LineInit
  <2> QED BY <1>2, <1>4, <1>5, <2>1, <2>2, <2>3 DEF NobodyStranded, CyclesApart
<1>8. /\ object \in Semaphores \cup {"event", "barrier"}
      /\ initial \in 0..MaxValue /\ value = initial /\ taken = 0
      /\ object = "event" => initial = 0
  BY MaxValuePositive DEF Init, SignalsInit, BarrierInit, IdleSignal, Semaphores
<1>9. SignalsTypeOK /\ PermitsKept /\ (object = "event" => value \in {0, 1})
  BY <1>8, MaxValuePositive DEF SignalsTypeOK, PermitsKept
<1>10. NoLostPermit
  BY <1>2, <1>8 DEF NoLostPermit
<1> QED BY <1>1, <1>3, <1>6, <1>7, <1>8, <1>9, <1>10 DEF IInv, NoLostWakeup

LEMMA StepKeeps == IInv /\ [Next]_vars => IInv'
<1> SUFFICES ASSUME IInv, [Next]_vars PROVE IInv'
  OBVIOUS
<1>1. CASE UNCHANGED vars
  <2>1. UNCHANGED <<object, line, phase, timed, missed, value, initial, taken>>
    BY <1>1 DEF vars, lvars, svars
  <2>2. UNCHANGED <<state, count, place, index, cohort, passed>>
    BY <1>1 DEF vars, bvars
  <2> QED BY <2>1, <2>2
       DEF IInv, NoLostWakeup, LineTypeOK, LineSound, SignalsTypeOK, BarrierTypeOK, NoLostPermit,
           NobodyStranded, PermitsKept, BarrierSound, CyclesApart, Asleep, Coming, Inside
<1>2. CASE Next
  <2>1. object' = object /\ object \in Semaphores \cup {"event", "barrier"}
    BY <1>2 DEF Next, IInv
  <2>2. UNCHANGED bvars => BarrierTypeOK'
    BY DEF IInv, NoLostWakeup, BarrierTypeOK, bvars
  <2>3. UNCHANGED svars => SignalsTypeOK'
    BY DEF IInv, NoLostWakeup, SignalsTypeOK, svars
  <2>4. /\ object \in Semaphores \cup {"event"} /\ SignalOK' /\ BarrierTypeOK' => IInv'
        /\ object = "barrier" /\ BarrierOK' /\ SignalsTypeOK' => IInv'
    BY <2>1 DEF IInv, NoLostWakeup, SignalOK, BarrierOK, LineOK, NobodyStranded, BarrierSound,
                CyclesApart, NoLostPermit, PermitsKept, Semaphores
  <2>5. CASE object # "barrier" /\ SignalsNext /\ UNCHANGED bvars
    BY <2>1, <2>2, <2>4, <2>5, Parts, SignalsStep
  <2>6. CASE object = "barrier" /\ BarrierNext /\ UNCHANGED svars
    BY <2>1, <2>3, <2>4, <2>6, Parts, BarrierStep
  <2>7. ASSUME NEW t \in Threads, Expire(t) \/ RemoveSelf(t), UNCHANGED <<svars, bvars>>
        PROVE  IInv'
    BY <2>1, <2>2, <2>3, <2>4, <2>7, Parts, SignalsTimeUp, BarrierTimeUp
  <2> QED BY <1>2, <2>5, <2>6, <2>7 DEF Next
<1> QED BY <1>1, <1>2

\* Types, and everything the three invariants need, hold in every state of every
\* semaphore, event and barrier.
THEOREM PrimitivesInvariance == Spec => []IInv
BY InitHolds, StepKeeps, PTL DEF Spec

\* No wake-up is lost but by a notify() that raises.  Those apart who slept through
\* such a one and have not been woken since: every free permit has a thread coming
\* for it while anybody sleeps in acquire(); nobody sleeps in Event.wait() with the
\* flag set, and nobody in Barrier.wait() once it is their turn to go.
THEOREM NoWakeupIsLost == Spec => []NoLostWakeup
<1>1. IInv => NoLostWakeup
  BY DEF IInv
<1> QED BY <1>1, PrimitivesInvariance, PTL

\* Permits are neither forged nor lost.
THEOREM PermitsAreKept == Spec => []PermitsKept
<1>1. IInv => PermitsKept
  BY DEF IInv
<1> QED BY <1>1, PrimitivesInvariance, PTL

\* The cycles of a barrier do not mix, for any number of parties.
THEOREM CyclesDoNotMix == Spec => []CyclesApart
<1>1. IInv => CyclesApart
  BY DEF IInv
<1> QED BY <1>1, PrimitivesInvariance, PTL

\* Only abort() breaks a barrier at which the parties have met and been notified.
THEOREM TrippedIsFinal == Spec => TripIsFinal
<1> DEFINE final == object = "barrier" /\ state = 1 /\ state' < 0 => \E t \in Threads : Abort(t)
<1>1. [Next]_vars => [final]_<<lvars, bvars>>
  <2> SUFFICES ASSUME [Next]_vars, object = "barrier", state = 1, state' < 0
               PROVE  \E t \in Threads : Abort(t)
    OBVIOUS
  <2>1. state' # state /\ ~UNCHANGED bvars
    BY DEF bvars
  <2>2. BarrierNext
    BY <2>1 DEF Next, vars
  <2>3. PICK t \in Threads :
          \/ EnterBlocks(t) \/ EnterBroken(t)
          \/ \E timeout \in BOOLEAN : Arrive(t, timeout)
          \/ \E actionFails \in BOOLEAN : Trip(t, actionFails)
          \/ WaitReturns(t) \/ WaitAgain(t) \/ WaitTimesOut(t)
          \/ Reset(t) \/ Abort(t)
    BY <2>2 DEF BarrierNext
  <2>4. /\ ~EnterBlocks(t) /\ ~EnterBroken(t) /\ ~WaitAgain(t) /\ ~WaitTimesOut(t)
        /\ \A timeout \in BOOLEAN : ~Arrive(t, timeout)
        /\ \A actionFails \in BOOLEAN : ~Trip(t, actionFails)
    <3>1. ~EnterBlocks(t) /\ ~EnterBroken(t) /\ ~WaitAgain(t)
      BY <2>1 DEF EnterBlocks, EnterBroken, WaitAgain
    <3>2. ~WaitTimesOut(t)
      BY DEF WaitTimesOut, OutOfTime
    <3>3. Closed
      BY DEF Closed
    <3> QED BY <3>1, <3>2, <3>3 DEF Arrive, Trip
  <2>5. ~WaitReturns(t) /\ ~Reset(t)
    BY DEF WaitReturns, Leave, Exit, Reset, ResetState
  <2> QED BY <2>3, <2>4, <2>5
<1> QED BY <1>1, PTL DEF Spec, TripIsFinal

-----------------------------------------------------------------------------
(* Part 2: the life of threads.                                            *)

\* One thread goes on in its call.
LEMMA OneCall ==
  ASSUME TypeOK, NEW a \in AllThreads, NEW c \in CallRecords, call' = [call EXCEPT ![a] = c]
  PROVE  /\ call' \in [AllThreads -> CallRecords] /\ call'[a] = c
         /\ \A b \in AllThreads \ {a} : call'[b] = call[b]
BY DEF TypeOK

LEMMA GoesTo ==
  ASSUME TypeOK, NEW a \in AllThreads, NEW at, GoTo(a, at),
         at \in {"none", "create", "started", "unbound", "acquire", "release", "stop", "assert",
                 "mark", "unbind", "return", "error"}
  PROVE  \E c \in CallRecords :
           /\ call' = [call EXCEPT ![a] = c]
           /\ c.at = at /\ c.op = call[a].op /\ c.on = call[a].on /\ c.timed = call[a].timed
<1> DEFINE c == [call[a] EXCEPT !.at = at]
<1>1. call' = [call EXCEPT ![a] = c]
  BY DEF GoTo, TypeOK
<1>2. /\ c \in CallRecords
      /\ c.at = at /\ c.op = call[a].op /\ c.on = call[a].on /\ c.timed = call[a].timed
  BY DEF TypeOK, CallRecords
<1> QED BY <1>1, <1>2

LEMMA NoCallType == NoCall \in CallRecords /\ NoCall.at = "none" /\ NoCall.op = "none"
BY DEF NoCall, CallRecords

\* Only the call of thread a changes, and it is not one that starts a thread.
LEMMA CallMoves ==
  ASSUME ThreadAssumption, LifeSound,
         NEW a \in AllThreads, NEW c \in CallRecords, call' = [call EXCEPT ![a] = c],
         UNCHANGED <<starters, life, started, stopped, bound, held, active, limbo, main>>,
         calls' \in [AllThreads -> Nat], \A t \in AllThreads : calls'[t] <= MaxCalls[t],
         c.at \notin {"create", "started"}, CallAgrees(a, c),
         call[a].at = "started" => started[call[a].on],
         a = Main /\ call[a].op = "is_alive" /\ main.phase = "pick" =>
           c.op = "is_alive" /\ c.on = call[a].on
  PROVE  LifeSound'
<1>1. /\ call' \in [AllThreads -> CallRecords] /\ call'[a] = c
      /\ \A b \in AllThreads \ {a} : call'[b] = call[b]
  BY OneCall DEF LifeSound
<1>2. TypeOK'
  BY <1>1 DEF LifeSound, TypeOK
<1>3. LifeAgrees'
  BY DEF LifeSound, LifeAgrees, Released
<1>4. CallsAgree'
  BY <1>1 DEF LifeSound, CallsAgree, CallAgrees, Released
<1>5. ListsAgree'
  <2>1. \A t \in AllThreads : life[t] \in {"boot", "locked"} =>
          \E b \in AllThreads : call'[b].at = "started" /\ call'[b].on = t
    BY <1>1 DEF LifeSound, ListsAgree, LifeAgrees
  <2> QED BY <1>1, <2>1 DEF LifeSound, ListsAgree
<1>6. ShutdownKnows'
  BY <1>1 DEF LifeSound, ShutdownKnows, ThreadAssumption
<1> QED BY <1>2, <1>3, <1>4, <1>5, <1>6 DEF LifeSound

LEMMA CountedType ==
  ASSUME ThreadAssumption, TypeOK, NEW a \in AllThreads, MayCall(a), Counted(a)
  PROVE  calls' \in [AllThreads -> Nat] /\ \A t \in AllThreads : calls'[t] <= MaxCalls[t]
BY DEF ThreadAssumption, TypeOK, MayCall, Counted

\* _wait_for_tstate_lock() begins.
LEMMA Waits ==
  ASSUME TypeOK, NEW a \in AllThreads, NEW t \in AllThreads, NEW op \in {"join", "is_alive"}, NEW limited \in BOOLEAN,
         WaitForTstateLock(a, op, t, limited)
  PROVE  \E c \in CallRecords :
           /\ call' = [call EXCEPT ![a] = c]
           /\ c.op = op /\ c.on = t /\ c.timed = limited /\ c.at \in {"acquire", "unbound"}
<1> DEFINE c == [op |-> op, on |-> t, timed |-> limited, at |-> IF bound[t] THEN "acquire" ELSE "unbound"]
<1>1. call' = [call EXCEPT ![a] = c]
  BY DEF WaitForTstateLock
<1>2. c \in CallRecords /\ c.op = op /\ c.on = t /\ c.timed = limited /\ c.at \in {"acquire", "unbound"}
  BY DEF CallRecords
<1> QED BY <1>1, <1>2

-----------------------------------------------------------------------------
(* Calls that change nothing but where the caller is.                      *)

LEMMA WaitStep ==
  ASSUME ThreadAssumption, LifeSound, NEW a \in AllThreads, NEW t \in AllThreads,
         (\E limited \in BOOLEAN : Join(a, t, limited)) \/ IsAlive(a, t)
  PROVE  LifeSound'
<1>1. PICK op \in {"join", "is_alive"}, limited \in BOOLEAN : WaitForTstateLock(a, op, t, limited)
  BY DEF Join, IsAlive
<1>2. /\ MayCall(a) /\ Counted(a) /\ started[t] /\ call[a] = NoCall
      /\ UNCHANGED <<starters, life, started, stopped, bound, held, active, limbo, main>>
  BY DEF Join, IsAlive, MayCall, Runs
<1>3. PICK c \in CallRecords :
        /\ call' = [call EXCEPT ![a] = c]
        /\ c.op = op /\ c.on = t /\ c.timed = limited /\ c.at \in {"acquire", "unbound"}
  BY <1>1, Waits DEF LifeSound
<1>4. CallAgrees(a, c)
  BY <1>2, <1>3 DEF CallAgrees
<1> QED BY <1>2, <1>3, <1>4, CountedType, CallMoves, NoCallType DEF LifeSound

LEMMA LookStep ==
  ASSUME ThreadAssumption, LifeSound, NEW a \in AllThreads,
         StartedWait(a) \/ AssertStopped(a) \/ NotAcquired(a) \/ StopReads(a) \/ AssertUnlocked(a)
  PROVE  LifeSound'
<1>1. PICK at \in {"return", "error", "assert", "mark"} :
        /\ GoTo(a, at)
        /\ at = "assert" => call[a].at = "stop"
        /\ at = "mark" => call[a].at \in {"stop", "assert"}
        /\ at = "return" => \/ call[a].at = "started" \/ call[a].timed
                            \/ stopped[call[a].on]
  BY DEF StartedWait, AssertStopped, NotAcquired, StopReads, AssertUnlocked, At
<1>2. /\ UNCHANGED <<starters, life, started, stopped, bound, held, active, limbo, calls, main>>
      /\ call[a].at # "none"
      /\ call[a].at = "started" => started[call[a].on]
  BY DEF StartedWait, AssertStopped, NotAcquired, StopReads, AssertUnlocked, At
<1>3. PICK c \in CallRecords :
        /\ call' = [call EXCEPT ![a] = c]
        /\ c.at = at /\ c.op = call[a].op /\ c.on = call[a].on /\ c.timed = call[a].timed
  BY <1>1, GoesTo DEF LifeSound
<1>4. CallAgrees(a, c)
  BY <1>1, <1>2, <1>3 DEF LifeSound, CallsAgree, CallAgrees
<1>5. calls' \in [AllThreads -> Nat] /\ \A t \in AllThreads : calls'[t] <= MaxCalls[t]
  BY <1>2 DEF LifeSound, TypeOK
<1> QED BY <1>1, <1>2, <1>3, <1>4, <1>5, CallMoves

LEMMA ReturnStep ==
  ASSUME ThreadAssumption, LifeSound, NEW a \in AllThreads, Return(a)
  PROVE  LifeSound'
<1>1. /\ call' = [call EXCEPT ![a] = NoCall] /\ (a = Main => main.phase = "running")
      /\ UNCHANGED <<starters, life, started, stopped, bound, held, active, limbo, calls, main>>
      /\ call[a].at # "started"
  BY DEF Return, At
<1>2. calls' \in [AllThreads -> Nat] /\ \A t \in AllThreads : calls'[t] <= MaxCalls[t]
  BY <1>1 DEF LifeSound, TypeOK
<1>3. CallAgrees(a, NoCall)
  BY NoCallType DEF CallAgrees
<1> QED BY <1>1, <1>2, <1>3, NoCallType, CallMoves

-----------------------------------------------------------------------------
(* start().                                                                *)

LEMMA StartStep ==
  ASSUME ThreadAssumption, LifeSound, NEW a \in AllThreads, NEW t \in AllThreads, Start(a, t)
  PROVE  LifeSound'
<1> DEFINE c == [NoCall EXCEPT !.op = "start", !.on = t, !.at = "create"]
<1>1. /\ MayCall(a) /\ Counted(a) /\ a \in starters /\ life[t] = "new" /\ t \notin limbo
      /\ limbo' = limbo \cup {t} /\ call' = [call EXCEPT ![a] = c]
      /\ call[a] = NoCall /\ (a = Main => main.phase = "running")
      /\ UNCHANGED <<starters, life, started, stopped, bound, held, active, main>>
  BY DEF Start, MayCall, Runs
<1>2. c \in CallRecords /\ c.op = "start" /\ c.on = t /\ c.at = "create"
  BY DEF NoCall, CallRecords
<1> HIDE DEF c
<1>3. /\ call' \in [AllThreads -> CallRecords] /\ call'[a] = c
      /\ \A b \in AllThreads \ {a} : call'[b] = call[b]
  BY <1>1, <1>2, OneCall DEF LifeSound
<1>4. t \notin active
  BY <1>1 DEF LifeSound, ListsAgree
<1>5. calls' \in [AllThreads -> Nat] /\ \A u \in AllThreads : calls'[u] <= MaxCalls[u]
  BY <1>1, CountedType DEF LifeSound
<1>6. TypeOK'
  BY <1>1, <1>3, <1>4, <1>5 DEF LifeSound, TypeOK
<1>7. LifeAgrees'
  BY <1>1 DEF LifeSound, LifeAgrees, Released
<1>8. CallsAgree'
  <2>1. CallAgrees(a, c)
    BY <1>1, <1>2 DEF CallAgrees
  <2> QED BY <1>1, <1>3, <2>1 DEF LifeSound, CallsAgree, CallAgrees, Released
<1>9. ListsAgree'
  <2>1. \A u \in AllThreads : life[u] \in {"boot", "locked"} =>
          \E b \in AllThreads : call'[b].at = "started" /\ call'[b].on = u
    BY <1>1, <1>3, NoCallType DEF LifeSound, ListsAgree
  <2>2. \A b \in AllThreads \ {a} : call[b].at = "create" => call[b].on \in limbo /\ call[b].on # t
    BY <1>1 DEF LifeSound, ListsAgree
  <2> QED BY <1>1, <1>2, <1>3, <2>1, <2>2 DEF LifeSound, ListsAgree
<1>10. ShutdownKnows'
  BY <1>1, <1>3, NoCallType DEF LifeSound, ShutdownKnows, ThreadAssumption
<1> QED BY <1>6, <1>7, <1>8, <1>9, <1>10 DEF LifeSound

LEMMA StartNewThreadStep ==
  ASSUME ThreadAssumption, LifeSound, NEW a \in AllThreads, StartNewThread(a)
  PROVE  LifeSound'
<1>1. PICK t : t = call[a].on
  OBVIOUS
<1>2. /\ call[a].at = "create" /\ life' = [life EXCEPT ![t] = "boot"]
      /\ UNCHANGED <<starters, started, stopped, bound, held, active, limbo, calls, main>>
  BY <1>1 DEF StartNewThread, At
<1>3. PICK c \in CallRecords :
        /\ call' = [call EXCEPT ![a] = c]
        /\ c.at = "started" /\ c.op = call[a].op /\ c.on = t /\ c.timed = call[a].timed
  BY <1>1, GoesTo DEF LifeSound, StartNewThread
<1>4. /\ call' \in [AllThreads -> CallRecords] /\ call'[a] = c
      /\ \A b \in AllThreads \ {a} : call'[b] = call[b]
  BY <1>3, OneCall DEF LifeSound
<1>5. /\ t \in AllThreads /\ t \in limbo /\ life[t] = "new" /\ t # Main
      /\ c.op = "start" /\ a \in starters /\ (a = Main => main.phase = "running")
      /\ \A b \in AllThreads \ {a} : call[b].at = "create" => call[b].on # t
  BY <1>1, <1>2, <1>3 DEF LifeSound, ListsAgree, CallsAgree, CallAgrees, LifeAgrees
<1>6. /\ life'[t] = "boot" /\ \A u \in AllThreads \ {t} : life'[u] = life[u]
      /\ life' \in [AllThreads -> {"new", "boot", "locked", "started", "run", "exit", "ended"}]
  BY <1>2, <1>5 DEF LifeSound, TypeOK
<1>7. \A u \in AllThreads : Released(u) <=> Released(u)'
  BY <1>2, <1>5, <1>6 DEF Released
<1>8. TypeOK'
  BY <1>2, <1>4, <1>6 DEF LifeSound, TypeOK
<1>9. LifeAgrees'
  BY <1>2, <1>5, <1>6, <1>7 DEF LifeSound, LifeAgrees
<1>10. CallsAgree'
  <2>1. CallAgrees(a, c)'
    BY <1>2, <1>3, <1>5, <1>7 DEF CallAgrees
  <2>2. \A b \in AllThreads \ {a} : CallAgrees(b, call[b])'
    BY <1>2, <1>4, <1>7 DEF LifeSound, CallsAgree, CallAgrees
  <2> QED BY <1>4, <2>1, <2>2 DEF CallsAgree
<1>11. ListsAgree'
  <2>1. \A u \in AllThreads : life'[u] \in {"boot", "locked"} =>
          \E b \in AllThreads : call'[b].at = "started" /\ call'[b].on = u
    BY <1>2, <1>3, <1>4, <1>6 DEF LifeSound, ListsAgree
  <2> QED BY <1>2, <1>3, <1>4, <1>5, <1>6, <2>1 DEF LifeSound, ListsAgree
<1>12. ShutdownKnows'
  BY <1>2, <1>3, <1>4, <1>5, <1>6 DEF LifeSound, ShutdownKnows, ListsAgree, CallsAgree, CallAgrees
<1> QED BY <1>8, <1>9, <1>10, <1>11, <1>12 DEF LifeSound

LEMMA CannotStartStep ==
  ASSUME ThreadAssumption, LifeSound, NEW a \in AllThreads, CannotStart(a)
  PROVE  LifeSound'
<1>1. PICK t : t = call[a].on
  OBVIOUS
<1>2. /\ call[a].at = "create" /\ limbo' = limbo \ {t}
      /\ UNCHANGED <<starters, life, started, stopped, bound, held, active, calls, main>>
  BY <1>1 DEF CannotStart, At
<1>3. PICK c \in CallRecords :
        /\ call' = [call EXCEPT ![a] = c]
        /\ c.at = "return" /\ c.op = call[a].op /\ c.on = t /\ c.timed = call[a].timed
  BY <1>1, GoesTo DEF LifeSound, CannotStart
<1>4. /\ call' \in [AllThreads -> CallRecords] /\ call'[a] = c
      /\ \A b \in AllThreads \ {a} : call'[b] = call[b]
  BY <1>3, OneCall DEF LifeSound
<1>5. /\ t \in AllThreads /\ life[t] = "new" /\ c.op = "start" /\ a \in starters
      /\ (a = Main => main.phase = "running")
      /\ \A b \in AllThreads \ {a} : call[b].at = "create" => call[b].on # t
  BY <1>1, <1>2, <1>3 DEF LifeSound, ListsAgree, CallsAgree, CallAgrees
<1>6. TypeOK'
  BY <1>2, <1>4 DEF LifeSound, TypeOK
<1>7. LifeAgrees'
  BY <1>2 DEF LifeSound, LifeAgrees, Released
<1>8. CallsAgree'
  <2>1. CallAgrees(a, c)'
    BY <1>2, <1>3, <1>5 DEF CallAgrees
  <2>2. \A b \in AllThreads \ {a} : CallAgrees(b, call[b])'
    BY <1>2, <1>4 DEF LifeSound, CallsAgree, CallAgrees, Released
  <2> QED BY <1>4, <2>1, <2>2 DEF CallsAgree
<1>9. ListsAgree'
  <2>1. \A u \in AllThreads : life[u] \in {"boot", "locked"} =>
          \E b \in AllThreads : call'[b].at = "started" /\ call'[b].on = u
    BY <1>2, <1>4 DEF LifeSound, ListsAgree
  <2> QED BY <1>2, <1>3, <1>4, <1>5, <2>1 DEF LifeSound, ListsAgree
<1>10. ShutdownKnows'
  BY <1>2, <1>3, <1>4, <1>5 DEF LifeSound, ShutdownKnows, ThreadAssumption
<1> QED BY <1>6, <1>7, <1>8, <1>9, <1>10 DEF LifeSound

-----------------------------------------------------------------------------
(* The life of a thread.                                                   *)

\* Thread t goes on in _bootstrap_inner().
LEMMA LifetimeStep ==
  ASSUME ThreadAssumption, LifeSound, NEW t \in AllThreads, Lifetime(t)
  PROVE  LifeSound'
<1>1. UNCHANGED <<starters, stopped, call, calls, main>>
  BY DEF Lifetime, SetTstateLock, SetStarted, Register, Unregister, ReleaseSentinel
<1>2. PICK at \in {"locked", "started", "run", "exit", "ended"} :
        /\ life' = [life EXCEPT ![t] = at] /\ t # Main
        /\ \/ life[t] = "boot" /\ at = "locked" /\ UNCHANGED <<started, active, limbo>>
              /\ bound' = [bound EXCEPT ![t] = TRUE] /\ held' = [held EXCEPT ![t] = t]
           \/ life[t] = "locked" /\ at = "started" /\ UNCHANGED <<bound, held, active, limbo>>
              /\ started' = [started EXCEPT ![t] = TRUE]
           \/ life[t] = "started" /\ at = "run" /\ UNCHANGED <<started, bound, held>>
              /\ active' = active \cup {t} /\ limbo' = limbo \ {t}
           \/ life[t] = "run" /\ at = "exit" /\ UNCHANGED <<started, bound, held, limbo>>
              /\ active' = active \ {t}
           \/ life[t] = "exit" /\ at = "ended" /\ UNCHANGED <<started, bound, active, limbo>>
              /\ held' = [held EXCEPT ![t] = None]
  BY DEF Lifetime, SetTstateLock, SetStarted, Register, Unregister, ReleaseSentinel, Lives, Becomes, Runs,
         LifeSound, LifeAgrees
<1>3. /\ life'[t] = at /\ \A u \in AllThreads \ {t} : life'[u] = life[u]
      /\ life' \in [AllThreads -> {"new", "boot", "locked", "started", "run", "exit", "ended"}]
  BY <1>2 DEF LifeSound, TypeOK
<1>4. /\ \A u \in AllThreads \ {t} : Released(u) <=> Released(u)'
      /\ ~Released(t) /\ (Released(t)' <=> at = "ended")
  BY <1>1, <1>2, <1>3 DEF Released
<1>5. /\ started' \in [AllThreads -> BOOLEAN] /\ bound' \in [AllThreads -> BOOLEAN]
      /\ held' \in [AllThreads -> AllThreads \cup {None}]
      /\ \A u \in AllThreads \ {t} : started'[u] = started[u] /\ bound'[u] = bound[u] /\ held'[u] = held[u]
      /\ started[t] => started'[t]
  <2>1. started' = started \/ started' = [started EXCEPT ![t] = TRUE]
    BY <1>2
  <2>2. bound' = bound \/ bound' = [bound EXCEPT ![t] = TRUE]
    BY <1>2
  <2>3. held' = held \/ held' = [held EXCEPT ![t] = t] \/ held' = [held EXCEPT ![t] = None]
    BY <1>2
  <2>4. started' \in [AllThreads -> BOOLEAN] /\ \A u \in AllThreads \ {t} : started'[u] = started[u]
    BY <2>1 DEF LifeSound, TypeOK
  <2>5. bound' \in [AllThreads -> BOOLEAN] /\ \A u \in AllThreads \ {t} : bound'[u] = bound[u]
    BY <2>2 DEF LifeSound, TypeOK
  <2>6. held' \in [AllThreads -> AllThreads \cup {None}] /\ \A u \in AllThreads \ {t} : held'[u] = held[u]
    BY <2>3 DEF LifeSound, TypeOK
  <2>7. started[t] => started'[t]
    BY <2>1 DEF LifeSound, TypeOK
  <2> QED BY <2>4, <2>5, <2>6, <2>7
<1>6. TypeOK'
  BY <1>1, <1>2, <1>3, <1>5 DEF LifeSound, TypeOK
<1>7. LifeAgrees'
  <2>1. /\ started'[t] <=> at \in {"started", "run", "exit", "ended"}
        /\ at # "ended" => bound'[t] /\ held'[t] = t
        /\ ~stopped[t]
        /\ started'[t] => bound'[t]
    BY <1>2, <1>4 DEF LifeSound, TypeOK, LifeAgrees
  <2> QED BY <1>1, <1>2, <1>3, <1>4, <1>5, <2>1 DEF LifeSound, LifeAgrees
<1>8. CallsAgree'
  <2> SUFFICES ASSUME NEW a \in AllThreads PROVE CallAgrees(a, call[a])'
    BY DEF CallsAgree
  <2>1. call[a].at = "release" => call[a].on # t
    BY <1>4 DEF LifeSound, CallsAgree, CallAgrees
  <2> QED BY <1>1, <1>4, <1>5, <2>1 DEF LifeSound, CallsAgree, CallAgrees
<1>9. ListsAgree'
  <2>1. /\ t \in active' => at = "run"
        /\ t \in limbo' => at \in {"locked", "started"}
        /\ at \in {"locked", "started"} => t \in limbo'
        /\ at = "run" => t \in active'
        /\ \A u \in AllThreads \ {t} : (u \in active' <=> u \in active) /\ (u \in limbo' <=> u \in limbo)
    BY <1>2 DEF LifeSound, ListsAgree
  <2>2. \A a \in AllThreads : call[a].at = "create" => call[a].on # t
    BY <1>2 DEF LifeSound, ListsAgree
  <2>3. at = "locked" => \E a \in AllThreads : call[a].at = "started" /\ call[a].on = t
    BY <1>2 DEF LifeSound, ListsAgree
  <2>4. \A a \in AllThreads : call[a].at = "create" =>
          /\ call[a].on \in limbo' /\ life'[call[a].on] = "new"
          /\ \A b \in AllThreads : call[b].at = "create" /\ call[b].on = call[a].on => b = a
    BY <1>3, <2>1, <2>2 DEF LifeSound, ListsAgree, CallsAgree, CallAgrees
  <2>5. \A u \in AllThreads : life'[u] \in {"boot", "locked"} =>
          \E a \in AllThreads : call[a].at = "started" /\ call[a].on = u
    BY <1>3, <2>3 DEF LifeSound, ListsAgree
  <2>6. \A u \in AllThreads :
          /\ u \in active' => life'[u] = "run"
          /\ u \in limbo' => life'[u] \in {"new", "boot", "locked", "started"}
          /\ life'[u] \in {"boot", "locked", "started"} => u \in limbo'
          /\ life'[u] = "run" /\ u # Main => u \in active'
    BY <1>2, <1>3, <2>1 DEF LifeSound, ListsAgree
  <2> QED BY <1>1, <2>4, <2>5, <2>6 DEF ListsAgree
<1>10. ShutdownKnows'
  BY <1>1, <1>2, <1>3 DEF LifeSound, ShutdownKnows
<1> QED BY <1>6, <1>7, <1>8, <1>9, <1>10 DEF LifeSound

-----------------------------------------------------------------------------
(* The lock is acquired and released, and _stop() is called.               *)

\* Thread a, in a call about t, changes what is known of t.
LEMMA LockStep ==
  ASSUME ThreadAssumption, LifeSound, NEW a \in AllThreads,
         Acquire(a) \/ ReleaseLock(a) \/ Mark(a) \/ Unbind(a)
  PROVE  LifeSound'
<1>1. PICK t : t = call[a].on
  OBVIOUS
<1>2. UNCHANGED <<starters, life, started, active, limbo, calls, main>>
  BY DEF Acquire, ReleaseLock, Mark, Unbind
<1>3. PICK at \in {"release", "stop", "unbind", "return"} :
        /\ GoTo(a, at)
        /\ \/ call[a].at = "acquire" /\ at = "release" /\ UNCHANGED <<stopped, bound>>
              /\ held[t] = None /\ held' = [held EXCEPT ![t] = a]
           \/ call[a].at = "release" /\ at = "stop" /\ UNCHANGED <<stopped, bound>>
              /\ held' = [held EXCEPT ![t] = None]
           \/ call[a].at = "mark" /\ at = "unbind" /\ UNCHANGED <<held, bound>>
              /\ stopped' = [stopped EXCEPT ![t] = TRUE]
           \/ call[a].at = "unbind" /\ at = "return" /\ UNCHANGED <<held, stopped>>
              /\ bound' = [bound EXCEPT ![t] = FALSE]
  BY <1>1 DEF Acquire, ReleaseLock, Mark, Unbind, At
<1>4. PICK c \in CallRecords :
        /\ call' = [call EXCEPT ![a] = c]
        /\ c.at = at /\ c.op = call[a].op /\ c.on = t /\ c.timed = call[a].timed
  BY <1>1, <1>3, GoesTo DEF LifeSound
<1>5. /\ call' \in [AllThreads -> CallRecords] /\ call'[a] = c
      /\ \A b \in AllThreads \ {a} : call'[b] = call[b]
  BY <1>4, OneCall DEF LifeSound
<1>6. /\ t \in AllThreads
      /\ call[a].at = "acquire" => started[t]
      /\ call[a].at # "acquire" => Released(t)
      /\ call[a].at = "unbind" => stopped[t]
      /\ call[a].at = "release" => held[t] = a
  BY <1>1, <1>3 DEF LifeSound, CallsAgree, CallAgrees
\* whoever gets the lock finds it released for good.
<1>7. Released(t)
  <2>1. ASSUME ~Released(t), call[a].at = "acquire" PROVE FALSE
    <3>1. life[t] \in {"locked", "started", "run", "exit"} /\ held[t] = None
      BY <1>3, <1>6, <2>1 DEF LifeSound, LifeAgrees, Released
    <3> QED BY <1>6, <2>1, <3>1 DEF LifeSound, LifeAgrees, ThreadAssumption
  <2> QED BY <1>6, <2>1
<1>8. /\ stopped' \in [AllThreads -> BOOLEAN] /\ bound' \in [AllThreads -> BOOLEAN]
      /\ held' \in [AllThreads -> AllThreads \cup {None}]
      /\ \A u \in AllThreads \ {t} : stopped'[u] = stopped[u] /\ bound'[u] = bound[u] /\ held'[u] = held[u]
      /\ \A u \in AllThreads : stopped[u] => stopped'[u]
  <2>1. stopped' = stopped \/ stopped' = [stopped EXCEPT ![t] = TRUE]
    BY <1>3
  <2>2. bound' = bound \/ bound' = [bound EXCEPT ![t] = FALSE]
    BY <1>3
  <2>3. held' = held \/ held' = [held EXCEPT ![t] = a] \/ held' = [held EXCEPT ![t] = None]
    BY <1>3
  <2>t. /\ stopped \in [AllThreads -> BOOLEAN] /\ bound \in [AllThreads -> BOOLEAN]
        /\ held \in [AllThreads -> AllThreads \cup {None}]
    BY DEF LifeSound, TypeOK
  <2>4. stopped' \in [AllThreads -> BOOLEAN] /\ \A u \in AllThreads \ {t} : stopped'[u] = stopped[u]
    BY <2>1, <2>t
  <2>5. bound' \in [AllThreads -> BOOLEAN] /\ \A u \in AllThreads \ {t} : bound'[u] = bound[u]
    <3>1. CASE bound' = bound
      BY <2>t, <3>1
    <3>2. CASE bound' = [bound EXCEPT ![t] = FALSE]
      BY <2>t, <3>2
    <3> QED BY <2>2, <3>1, <3>2
  <2>6. held' \in [AllThreads -> AllThreads \cup {None}] /\ \A u \in AllThreads \ {t} : held'[u] = held[u]
    BY <2>3, <2>t
  <2>7. \A u \in AllThreads : stopped[u] => stopped'[u]
    BY <2>1, <2>t
  <2> QED BY <2>4, <2>5, <2>6, <2>7
<1>9. \A u \in AllThreads : Released(u) <=> Released(u)'
  BY <1>2 DEF Released
<1>10. TypeOK'
  BY <1>2, <1>5, <1>8 DEF LifeSound, TypeOK
<1>11. LifeAgrees'
  <2>1. started[t] /\ ~bound'[t] => stopped'[t]
    BY <1>3, <1>6, <1>8 DEF LifeSound, TypeOK, LifeAgrees
  <2> QED BY <1>2, <1>7, <1>8, <1>9, <2>1 DEF LifeSound, LifeAgrees
<1>12. CallsAgree'
  <2>1. CallAgrees(a, c)'
    <3>1. at = "release" => held'[t] = a
      BY <1>3, <1>6 DEF LifeSound, TypeOK
    <3>2. at = "unbind" => stopped'[t]
      BY <1>3, <1>6 DEF LifeSound, TypeOK
    <3>3. at = "return" => stopped'[t]
      BY <1>3, <1>6, <1>8
    <3>4. c.op # "start" => started[t]
      BY <1>1, <1>3, <1>4 DEF LifeSound, CallsAgree, CallAgrees
    <3>5. c.op = "start" => a \in starters /\ (a = Main => main.phase = "running")
      BY <1>4 DEF LifeSound, CallsAgree, CallAgrees
    <3> QED BY <1>2, <1>3, <1>4, <1>6, <1>7, <1>9, <3>1, <3>2, <3>3, <3>4, <3>5 DEF CallAgrees
  <2>2. ASSUME NEW b \in AllThreads \ {a} PROVE CallAgrees(b, call[b])'
    <3>1. call[b].at = "release" => held'[call[b].on] = b
      <4>1. call[b].at = "release" => held[call[b].on] = b /\ call[b].on \in AllThreads
        BY DEF LifeSound, CallsAgree, CallAgrees
      <4>2. call[b].at = "release" /\ call[b].on = t => held' = held
        BY <1>3, <1>6, <4>1 DEF ThreadAssumption
      <4> QED BY <1>8, <4>1, <4>2
    <3>2. call'[b] = call[b]
      BY <1>5
    <3>3. /\ call[b].at # "none" => call[b].on \in AllThreads
          /\ call[b].at \in {"release", "stop", "assert", "mark", "unbind"} => Released(call[b].on)
      BY DEF LifeSound, CallsAgree, CallAgrees
    <3> QED BY <1>2, <1>8, <1>9, <3>1, <3>2, <3>3 DEF LifeSound, CallsAgree, CallAgrees
  <2> QED BY <1>5, <2>1, <2>2 DEF CallsAgree
<1>13. ListsAgree'
  <2>1. \A u \in AllThreads : life[u] \in {"boot", "locked"} =>
          \E b \in AllThreads : call'[b].at = "started" /\ call'[b].on = u
    BY <1>3, <1>5 DEF LifeSound, ListsAgree
  <2> QED BY <1>2, <1>3, <1>4, <1>5, <2>1 DEF LifeSound, ListsAgree
<1>14. ShutdownKnows'
  BY <1>1, <1>2, <1>4, <1>5 DEF LifeSound, ShutdownKnows, ThreadAssumption
<1> QED BY <1>10, <1>11, <1>12, <1>13, <1>14 DEF LifeSound

-----------------------------------------------------------------------------
(* _shutdown().                                                            *)

\* From the first step of _shutdown() on, the main thread starts no thread.
LEMMA ShutdownBeginsStep ==
  ASSUME ThreadAssumption, LifeSound, ShutdownBegins
  PROVE  LifeSound'
<1> DEFINE c == [NoCall EXCEPT !.op = "stop", !.on = Main, !.at = "stop"]
<1>1. /\ call[Main] = NoCall /\ main.phase = "running" /\ Main \in AllThreads
      /\ held' = [held EXCEPT ![Main] = None] /\ call' = [call EXCEPT ![Main] = c]
      /\ main' = [main EXCEPT !.phase = "stop"]
      /\ UNCHANGED <<starters, life, started, stopped, bound, active, limbo, calls>>
  BY DEF ShutdownBegins, Runs, ThreadAssumption
<1>2. c \in CallRecords /\ c.op = "stop" /\ c.on = Main /\ c.at = "stop"
  BY <1>1 DEF NoCall, CallRecords
<1> HIDE DEF c
<1>3. /\ call' \in [AllThreads -> CallRecords] /\ call'[Main] = c
      /\ \A b \in AllThreads \ {Main} : call'[b] = call[b]
  BY <1>1, <1>2, OneCall DEF LifeSound
<1>4. /\ main'.phase = "stop"
      /\ main' \in [phase : {"running", "stop", "pick", "join", "over", "aborted"},
                    rest : SUBSET AllThreads, late : SUBSET AllThreads]
  BY <1>1 DEF LifeSound, TypeOK
<1>5. /\ held' \in [AllThreads -> AllThreads \cup {None}] /\ held[Main] = Main
      /\ \A t \in AllThreads \ {Main} : held'[t] = held[t]
  BY <1>1 DEF LifeSound, TypeOK, LifeAgrees, Released
<1>6. /\ \A t \in AllThreads \ {Main} : Released(t) <=> Released(t)'
      /\ Released(Main)' /\ ~Released(Main)
  BY <1>1, <1>4 DEF Released
<1>7. TypeOK'
  BY <1>1, <1>3, <1>4, <1>5 DEF LifeSound, TypeOK
<1>8. LifeAgrees'
  BY <1>1, <1>5, <1>6 DEF LifeSound, LifeAgrees
<1>9. CallsAgree'
  <2>1. CallAgrees(Main, c)'
    BY <1>1, <1>2, <1>6 DEF CallAgrees, LifeSound, LifeAgrees
  <2>2. ASSUME NEW b \in AllThreads \ {Main} PROVE CallAgrees(b, call[b])'
    <3>1. call[b].at \in {"release", "stop", "assert", "mark", "unbind"} => call[b].on # Main
      BY <1>6 DEF LifeSound, CallsAgree, CallAgrees
    <3> QED BY <1>1, <1>3, <1>5, <1>6, <3>1 DEF LifeSound, CallsAgree, CallAgrees
  <2> QED BY <1>3, <2>1, <2>2 DEF CallsAgree
<1>10. ListsAgree'
  <2>1. \A u \in AllThreads : life[u] \in {"boot", "locked"} =>
          \E b \in AllThreads : call'[b].at = "started" /\ call'[b].on = u
    BY <1>1, <1>3, NoCallType DEF LifeSound, ListsAgree
  <2> QED BY <1>1, <1>2, <1>3, <2>1 DEF LifeSound, ListsAgree
<1>11. ShutdownKnows'
  BY <1>4 DEF ShutdownKnows
<1> QED BY <1>7, <1>8, <1>9, <1>10, <1>11 DEF LifeSound

\* A step of _shutdown() that moves only the main thread and its lists.
LEMMA ShutdownMoves ==
  ASSUME ThreadAssumption, LifeSound,
         NEW c \in CallRecords, call' = [call EXCEPT ![Main] = c],
         UNCHANGED <<starters, life, started, stopped, bound, held, active, limbo, calls>>,
         main' \in [phase : {"running", "stop", "pick", "join", "over", "aborted"},
                    rest : SUBSET AllThreads, late : SUBSET AllThreads],
         main.phase # "running", main'.phase # "running",
         CallAgrees(Main, c), c.at \notin {"create", "started"}, c.op # "start",
         ShutdownKnows'
  PROVE  LifeSound'
<1>1. /\ call' \in [AllThreads -> CallRecords] /\ call'[Main] = c
      /\ \A b \in AllThreads \ {Main} : call'[b] = call[b]
  BY OneCall DEF LifeSound, ThreadAssumption
<1>2. \A t \in AllThreads : Released(t) <=> Released(t)'
  BY DEF Released
<1>3. call[Main].at \notin {"create", "started"}
  BY DEF LifeSound, CallsAgree, CallAgrees, ThreadAssumption
<1>4. TypeOK'
  BY <1>1 DEF LifeSound, TypeOK
<1>5. LifeAgrees'
  BY <1>2 DEF LifeSound, LifeAgrees
<1>6. CallsAgree'
  <2>1. CallAgrees(Main, c)'
    BY <1>2 DEF CallAgrees
  <2>2. \A b \in AllThreads \ {Main} : CallAgrees(b, call[b])'
    BY <1>1, <1>2 DEF LifeSound, CallsAgree, CallAgrees
  <2> QED BY <1>1, <2>1, <2>2 DEF CallsAgree
<1>7. ListsAgree'
  <2>1. \A u \in AllThreads : life[u] \in {"boot", "locked"} =>
          \E b \in AllThreads : call'[b].at = "started" /\ call'[b].on = u
    BY <1>1, <1>3 DEF LifeSound, ListsAgree
  <2> QED BY <1>1, <2>1 DEF LifeSound, ListsAgree
<1> QED BY <1>4, <1>5, <1>6, <1>7 DEF LifeSound

\* With one starter, which is in _shutdown(), every thread that was started has begun.
LEMMA AllHaveBegun ==
  ASSUME ThreadAssumption, LifeSound, starters = {Main}, main.phase # "running", NEW t \in AllThreads
  PROVE  life[t] \notin {"boot", "locked"}
BY DEF LifeSound, ListsAgree, CallsAgree, CallAgrees, ThreadAssumption

LEMMA StoppedHasEnded ==
  ASSUME LifeSound, NEW t \in AllThreads \ {Main}, stopped[t]
  PROVE  life[t] = "ended"
BY DEF LifeSound, LifeAgrees, Released

LEMMA EnumerateStep ==
  ASSUME ThreadAssumption, LifeSound, Enumerate
  PROVE  LifeSound'
<1>1. /\ main.phase \in {"stop", "join"}
      /\ main' = [phase |-> "pick", rest |-> active \ Daemons, late |-> limbo \ Daemons]
      /\ call' = [call EXCEPT ![Main] = NoCall]
      /\ UNCHANGED <<starters, life, started, stopped, bound, held, active, limbo, calls>>
  BY DEF Enumerate
<1>2. main' \in [phase : {"running", "stop", "pick", "join", "over", "aborted"},
                 rest : SUBSET AllThreads, late : SUBSET AllThreads]
  BY <1>1 DEF LifeSound, TypeOK
<1>3. ShutdownKnows'
  BY <1>1 DEF ShutdownKnows, LifeSound, ListsAgree
<1>4. CallAgrees(Main, NoCall)
  BY NoCallType DEF CallAgrees
<1> QED BY <1>1, <1>2, <1>3, <1>4, NoCallType, ShutdownMoves

LEMMA PickNextStep ==
  ASSUME ThreadAssumption, LifeSound, NEW t \in AllThreads, PickNext(t)
  PROVE  LifeSound'
<1>1. /\ main.phase = "pick" /\ call[Main] = NoCall /\ Main \in AllThreads
      /\ main' = [main EXCEPT !.rest = @ \ {t}, !.late = @ \ {t}]
      /\ IF started[t] /\ ~stopped[t]
         THEN WaitForTstateLock(Main, "is_alive", t, TRUE)
         ELSE UNCHANGED call
      /\ UNCHANGED <<starters, life, started, stopped, bound, held, active, limbo, calls>>
  BY DEF PickNext, ThreadAssumption
<1>2. /\ main'.phase = "pick" /\ main'.rest = main.rest \ {t} /\ main'.late = main.late \ {t}
      /\ main' \in [phase : {"running", "stop", "pick", "join", "over", "aborted"},
                    rest : SUBSET AllThreads, late : SUBSET AllThreads]
  BY <1>1 DEF LifeSound, TypeOK
<1>3. PICK c \in CallRecords :
        /\ call' = [call EXCEPT ![Main] = c] /\ c.op # "start" /\ c.at \notin {"create", "started"}
        /\ CallAgrees(Main, c)
        /\ started[t] /\ ~stopped[t] => c.op = "is_alive" /\ c.on = t
  <2>1. CASE started[t] /\ ~stopped[t]
    <3>1. PICK c \in CallRecords :
            /\ call' = [call EXCEPT ![Main] = c]
            /\ c.op = "is_alive" /\ c.on = t /\ c.timed = TRUE /\ c.at \in {"acquire", "unbound"}
      BY <1>1, <2>1, TRUE \in BOOLEAN, "is_alive" \in {"join", "is_alive"}, Waits DEF LifeSound
    <3>2. CallAgrees(Main, c)
      BY <2>1, <3>1 DEF CallAgrees
    <3> QED BY <3>1, <3>2
  <2>2. CASE ~(started[t] /\ ~stopped[t])
    <3>1. call' = [call EXCEPT ![Main] = NoCall]
      BY <1>1, <2>2 DEF LifeSound, TypeOK
    <3> QED BY <2>2, <3>1, NoCallType DEF CallAgrees
  <2> QED BY <2>1, <2>2
<1>4. call'[Main] = c
  BY <1>1, <1>3, OneCall DEF LifeSound
<1>5. ShutdownKnows'
  <2> SUFFICES ASSUME starters = {Main}, NEW u \in AllThreads \ (Daemons \cup {Main}),
                      life[u] \in {"boot", "locked", "started", "run"}
               PROVE  u \in main'.rest \cup main'.late \/ (call'[Main].op = "is_alive" /\ call'[Main].on = u)
    BY <1>1, <1>2 DEF ShutdownKnows
  <2>1. u \in main.rest \cup main.late
    BY <1>1, NoCallType DEF LifeSound, ShutdownKnows
  <2>2. CASE u # t
    BY <1>2, <2>1, <2>2
  <2>3. CASE u = t
    <3>1. started[t] /\ ~stopped[t]
      BY <1>1, <2>3, AllHaveBegun, StoppedHasEnded DEF LifeSound, LifeAgrees
    <3> QED BY <1>3, <1>4, <2>3, <3>1
  <2> QED BY <2>2, <2>3
<1> QED BY <1>1, <1>2, <1>3, <1>5, ShutdownMoves

LEMMA JoinPickedStep ==
  ASSUME ThreadAssumption, LifeSound, JoinPicked
  PROVE  LifeSound'
<1>1. PICK t : t = call[Main].on
  OBVIOUS
<1>2. /\ main.phase = "pick" /\ call[Main].at = "return" /\ Main \in AllThreads
      /\ UNCHANGED <<starters, life, started, stopped, bound, held, active, limbo, calls>>
  BY DEF JoinPicked, At, ThreadAssumption
<1>3. t \in AllThreads
  BY <1>1, <1>2 DEF LifeSound, CallsAgree, CallAgrees
<1>4. CASE stopped[t]
  <2>1. call' = [call EXCEPT ![Main] = NoCall] /\ main' = main
    BY <1>1, <1>4 DEF JoinPicked
  <2>2. ShutdownKnows'
    BY <1>1, <1>2, <1>4, <2>1, StoppedHasEnded DEF LifeSound, ShutdownKnows
  <2>3. CallAgrees(Main, NoCall)
    BY NoCallType DEF CallAgrees
  <2>4. main' \in [phase : {"running", "stop", "pick", "join", "over", "aborted"},
                   rest : SUBSET AllThreads, late : SUBSET AllThreads]
    BY <2>1 DEF LifeSound, TypeOK
  <2> QED BY <1>2, <2>1, <2>2, <2>3, <2>4, NoCallType, ShutdownMoves
<1>5. CASE ~stopped[t]
  <2>1. PICK no \in BOOLEAN : no = FALSE
    OBVIOUS
  <2>2. /\ WaitForTstateLock(Main, "join", t, no)
        /\ main' = [phase |-> "join", rest |-> {}, late |-> {}]
    BY <1>1, <1>5, <2>1 DEF JoinPicked
  <2>3. PICK c \in CallRecords :
          /\ call' = [call EXCEPT ![Main] = c]
          /\ c.op = "join" /\ c.on = t /\ c.timed = no /\ c.at \in {"acquire", "unbound"}
    BY <1>2, <1>3, <2>2, Waits DEF LifeSound
  <2>4. started[t]
    BY <1>1, <1>2 DEF LifeSound, CallsAgree, CallAgrees
  <2>5. CallAgrees(Main, c)
    BY <1>3, <2>3, <2>4 DEF CallAgrees
  <2>6. ShutdownKnows'
    BY <2>2 DEF ShutdownKnows
  <2>7. c.op # "start" /\ c.at \notin {"create", "started"} /\ main'.phase # "running"
    BY <2>2, <2>3
  <2>8. main' \in [phase : {"running", "stop", "pick", "join", "over", "aborted"},
                   rest : SUBSET AllThreads, late : SUBSET AllThreads]
    BY <2>2
  <2> QED BY <1>2, <2>3, <2>5, <2>6, <2>7, <2>8, ShutdownMoves
<1> QED BY <1>4, <1>5

LEMMA ShutdownEndsStep ==
  ASSUME ThreadAssumption, LifeSound, ShutdownEnds \/ ShutdownRaises
  PROVE  LifeSound'
<1>1. /\ main.phase # "running"
      /\ UNCHANGED <<starters, life, started, stopped, bound, held, limbo, call, calls>>
      /\ \/ /\ main.phase = "pick" /\ call[Main] = NoCall /\ main.rest = {} /\ main.late = {}
            /\ main' = [main EXCEPT !.phase = "over"] /\ active' = active \ {Main}
         \/ main' = [main EXCEPT !.phase = "aborted"] /\ active' = active
  BY DEF ShutdownEnds, ShutdownRaises
<1>2. /\ main'.phase # "running" /\ main'.phase # "pick"
      /\ main'.phase = "over" => main.phase = "pick" /\ call[Main] = NoCall /\ main.rest = {} /\ main.late = {}
      /\ main' \in [phase : {"running", "stop", "pick", "join", "over", "aborted"},
                    rest : SUBSET AllThreads, late : SUBSET AllThreads]
  BY <1>1 DEF LifeSound, TypeOK
<1>3. \A t \in AllThreads : Released(t) <=> Released(t)'
  BY <1>1, <1>2 DEF Released
<1>4. TypeOK'
  <2>1. active' \subseteq active
    BY <1>1
  <2> QED BY <1>1, <1>2, <2>1 DEF LifeSound, TypeOK
<1>5. LifeAgrees'
  BY <1>1, <1>3 DEF LifeSound, LifeAgrees
<1>6. CallsAgree'
  BY <1>1, <1>2, <1>3 DEF LifeSound, CallsAgree, CallAgrees
<1>7. ListsAgree'
  <2>1. \A t \in AllThreads : (t \in active' => t \in active) /\ (t # Main /\ t \in active => t \in active')
    BY <1>1
  <2> QED BY <1>1, <2>1 DEF LifeSound, ListsAgree
<1>8. ShutdownKnows'
  BY <1>1, <1>2, NoCallType DEF LifeSound, ShutdownKnows
<1> QED BY <1>4, <1>5, <1>6, <1>7, <1>8 DEF LifeSound

-----------------------------------------------------------------------------
(* The theorems.                                                           *)

LEMMA InitIInv ==
  ASSUME ThreadAssumption, LifeInit
  PROVE  LifeSound
<1>1. /\ \A t \in AllThreads : call[t] = NoCall
      /\ \A t \in AllThreads : calls[t] = 0 /\ 0 <= MaxCalls[t]
  BY DEF LifeInit, ThreadAssumption
<1>2. TypeOK
  BY <1>1, NoCallType DEF LifeInit, TypeOK, ThreadAssumption
<1>3. LifeAgrees
  BY DEF LifeInit, LifeAgrees, Released, ThreadAssumption
<1>4. CallsAgree
  BY <1>1, NoCallType DEF CallsAgree, CallAgrees
<1>5. ListsAgree
  BY <1>1, NoCallType DEF LifeInit, ListsAgree, ThreadAssumption
<1>6. ShutdownKnows
  BY DEF LifeInit, ShutdownKnows
<1> QED BY <1>2, <1>3, <1>4, <1>5, <1>6 DEF LifeSound

LEMMA NextIInv ==
  ASSUME ThreadAssumption, LifeSound, [LifeNext]_lifeVars
  PROVE  LifeSound'
<1>1. ASSUME NEW a \in AllThreads, Calls(a) PROVE LifeSound'
  BY <1>1, StartStep, WaitStep DEF Calls
<1>2. ASSUME NEW a \in AllThreads, Proceed(a) PROVE LifeSound'
  BY <1>2, StartNewThreadStep, CannotStartStep, LookStep, LockStep, ReturnStep DEF Proceed
<1>3. ASSUME NEW t \in AllThreads, Lifetime(t) PROVE LifeSound'
  BY <1>3, LifetimeStep
<1>4. ASSUME Shutdown PROVE LifeSound'
  BY <1>4, ShutdownBeginsStep, EnumerateStep, PickNextStep, JoinPickedStep, ShutdownEndsStep DEF Shutdown
<1>5. ASSUME UNCHANGED lifeVars PROVE LifeSound'
  BY <1>5 DEF lifeVars, LifeSound, TypeOK, LifeAgrees, Released, CallsAgree, CallAgrees, ListsAgree, ShutdownKnows
<1> QED BY <1>1, <1>2, <1>3, <1>4, <1>5 DEF LifeNext

\* The locks, the lists and the calls agree with where each thread is in its life
\* (Thread.start(), _bootstrap_inner(), join(), is_alive(), _stop(), _shutdown()).
THEOREM LifeInvariance == LifeSpec => []LifeSound
<1>1. LifeInit => LifeSound
  BY InitIInv, ThreadAssumption
<1>2. LifeSound /\ [LifeNext]_lifeVars => LifeSound'
  BY NextIInv, ThreadAssumption
<1> QED BY <1>1, <1>2, PTL DEF LifeSpec

\* A thread is taken for stopped, and an untimed join() returns, only after C code
\* has released its lock, however many threads look at once; and if only the main
\* thread starts threads, _shutdown() ends after run() of each non-daemon thread.
THEOREM EndsAreSeenTruly == LifeSpec => []EndsAreTrue
<1>1. LifeSound => StoppedMeansEnded
  BY DEF LifeSound, StoppedMeansEnded, LifeAgrees, Released, CallsAgree, CallAgrees
<1>2. LifeSound => ExitAfterRuns
  BY DEF LifeSound, TypeOK, ExitAfterRuns, RunsBeforeExit, ShutdownKnows
<1>3. LifeSound => EndsAreTrue
  BY <1>1, <1>2 DEF LifeSound, EndsAreTrue
<1> QED BY <1>3, LifeInvariance, PTL
=============================================================================

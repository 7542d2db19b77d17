--------------------------- MODULE BufferProofs ---------------------------
(***************************************************************************)
(* Theorems about the two bounded buffers of the library: the items of     *)
(* queue.Queue and the bytes of a buffered stream of the io module.        *)
(*                                                                         *)
(* queue.Queue, for any finite set of threads, any maxsize and any         *)
(* container that moves one item at a time. The inductive invariant IInv   *)
(* says that no wake-up is lost. It counts notified threads, so it needs   *)
(* to know that notify() always reaches a thread that really sleeps on     *)
(* that condition: the lists of waiters hold each sleeper once and nobody  *)
(* else.                                                                   *)
(*                                                                         *)
(* A BufferedReader or BufferedWriter, for any size of the buffer, any     *)
(* file and any callers. The inductive invariant StreamInv says, for each  *)
(* place where a call lets go of the GIL around a raw operation, what the  *)
(* marks of the buffer are there, and where the raw stream is for a reader *)
(* and for a writer.                                                       *)
(***************************************************************************)
EXTENDS Queue, BufferedIO, SequenceTheorems, FiniteSetTheorems, TLAPS

-----------------------------------------------------------------------------
(* What the operations on a list of waiters do to its members.             *)

\* append(): one more member, the others stay.
LEMMA AppendLine ==
  ASSUME NEW S, NEW s \in Seq(S), NEW t \in S
  PROVE  /\ Append(s, t) \in Seq(S)
         /\ \A u : Listed(u, Append(s, t)) <=> Listed(u, s) \/ u = t
         /\ NoDup(s) /\ ~Listed(t, s) => NoDup(Append(s, t))
<1> DEFINE a == Append(s, t)
<1>1. /\ a \in Seq(S) /\ Len(a) = Len(s) + 1 /\ Len(s) \in Nat
      /\ \A i \in 1..Len(s) : a[i] = s[i]
      /\ a[Len(s) + 1] = t
  BY AppendProperties, LenProperties
<1> HIDE DEF a
<1>2. \A u : Listed(u, a) <=> Listed(u, s) \/ u = t
  <2>1. ASSUME NEW u, Listed(u, a) PROVE Listed(u, s) \/ u = t
    BY <1>1, <2>1 DEF Listed
  <2>2. ASSUME NEW u, Listed(u, s) PROVE Listed(u, a)
    BY <1>1, <2>2 DEF Listed
  <2>3. Listed(t, a)
    BY <1>1 DEF Listed
  <2> QED BY <2>1, <2>2, <2>3
<1>3. ASSUME NoDup(s), ~Listed(t, s) PROVE NoDup(a)
  BY <1>1, <1>3 DEF NoDup, Listed
<1> QED BY <1>1, <1>2, <1>3 DEF a

\* notify(): the head goes, the others stay.
LEMMA TailLine ==
  ASSUME NEW S, NEW s \in Seq(S), s # <<>>, NoDup(s)
  PROVE  /\ Head(s) \in S /\ Listed(Head(s), s)
         /\ Tail(s) \in Seq(S)
         /\ NoDup(Tail(s))
         /\ \A u : Listed(u, Tail(s)) <=> Listed(u, s) /\ u # Head(s)
<1> DEFINE r == Tail(s)
<1>1. /\ Head(s) \in S /\ r \in Seq(S) /\ Len(r) = Len(s) - 1
      /\ \A i \in 1..Len(r) : r[i] = s[i + 1]
      /\ Len(s) \in Nat \ {0}
      /\ Head(s) = s[1]
  BY HeadTailProperties, EmptySeq
<1> HIDE DEF r
<1>2. Listed(Head(s), s)
  BY <1>1 DEF Listed
<1>3. NoDup(r)
  BY <1>1 DEF NoDup
<1>4. ASSUME NEW u, Listed(u, r) PROVE Listed(u, s) /\ u # Head(s)
  <2>1. PICK i \in 1..Len(r) : r[i] = u
    BY <1>4 DEF Listed
  <2>2. i + 1 \in 1..Len(s) /\ s[i + 1] = u /\ 1 \in 1..Len(s) /\ i + 1 # 1
    BY <1>1, <2>1
  <2> QED BY <1>1, <2>2 DEF NoDup, Listed
<1>5. ASSUME NEW u, Listed(u, s), u # Head(s) PROVE Listed(u, r)
  <2>1. PICK i \in 1..Len(s) : s[i] = u
    BY <1>5 DEF Listed
  <2>2. i - 1 \in 1..Len(r) /\ r[i - 1] = u
    BY <1>1, <1>5, <2>1
  <2> QED BY <2>2 DEF Listed
<1> QED BY <1>1, <1>2, <1>3, <1>4, <1>5 DEF r

\* remove(waiter): that entry goes, the others stay.
LEMMA RemoveLine ==
  ASSUME NEW S, NEW s \in Seq(S), NoDup(s), NEW t
  PROVE  /\ RemoveFirst(s, t) \in Seq(S)
         /\ NoDup(RemoveFirst(s, t))
         /\ \A u : Listed(u, RemoveFirst(s, t)) <=> Listed(u, s) /\ u # t
<1>1. CASE ~Listed(t, s)
  <2>1. RemoveFirst(s, t) = s
    BY <1>1 DEF RemoveFirst, Listed
  <2> QED BY <1>1, <2>1
<1>2. CASE Listed(t, s)
  <2>1. PICK k \in 1..Len(s) : s[k] = t
    BY <1>2 DEF Listed
  <2>2. {i \in 1..Len(s) : s[i] = t} = {k}
    BY <2>1 DEF NoDup
  <2>3. Min({k}) = k
    BY <2>1 DEF Min
  <2>4. SelectInSeq(s, LAMBDA v : v = t) = k
    BY <2>2, <2>3 DEF SelectInSeq
  <2> DEFINE l == SubSeq(s, 1, k - 1)
             r == SubSeq(s, k + 1, Len(s))
             c == l \o r
  <2>5. RemoveFirst(s, t) = c
    BY <2>1, <2>4 DEF RemoveFirst, RemoveAt
  <2>6. Len(s) \in Nat /\ \A i \in 1..Len(s) : s[i] \in S
    BY LenProperties
  <2>7. /\ l \in Seq(S) /\ Len(l) = k - 1
        /\ \A i \in 1..(k - 1) : l[i] = s[i]
    <3>1. \A i \in 1..(k - 1) : s[i] \in S
      BY <2>1, <2>6
    <3>2. 1 \in Int /\ k - 1 \in Int
      BY <2>1
    <3>3. /\ l \in Seq(S)
          /\ Len(l) = IF 1 <= k - 1 THEN (k - 1) - 1 + 1 ELSE 0
          /\ \A i \in 1..((k - 1) - 1 + 1) : l[i] = s[1 + i - 1]
      BY <3>1, <3>2, SubSeqProperties
    <3> QED BY <3>3, <2>1, <2>6
  <2>8. /\ r \in Seq(S) /\ Len(r) = Len(s) - k
        /\ \A i \in 1..(Len(s) - k) : r[i] = s[k + i]
    <3>1. \A i \in (k + 1)..Len(s) : s[i] \in S
      BY <2>1, <2>6
    <3>2. k + 1 \in Int /\ Len(s) \in Int
      BY <2>1, <2>6
    <3>3. /\ r \in Seq(S)
          /\ Len(r) = IF k + 1 <= Len(s) THEN Len(s) - (k + 1) + 1 ELSE 0
          /\ \A i \in 1..(Len(s) - (k + 1) + 1) : r[i] = s[(k + 1) + i - 1]
      BY <3>1, <3>2, SubSeqProperties
    <3> QED BY <3>3, <2>1, <2>6
  <2> HIDE DEF l, r
  <2>9. /\ c \in Seq(S) /\ Len(c) = Len(s) - 1
        /\ \A i \in 1..(Len(s) - 1) : c[i] = IF i < k THEN s[i] ELSE s[i + 1]
    <3>1. /\ c \in Seq(S) /\ Len(c) = Len(l) + Len(r)
          /\ \A i \in 1..(Len(l) + Len(r)) :
               c[i] = IF i <= Len(l) THEN l[i] ELSE r[i - Len(l)]
      BY <2>7, <2>8, ConcatProperties
    <3>2. Len(c) = Len(s) - 1
      BY <3>1, <2>1, <2>6, <2>7, <2>8
    <3>3. ASSUME NEW i \in 1..(Len(s) - 1)
          PROVE  c[i] = IF i < k THEN s[i] ELSE s[i + 1]
      <4>1. c[i] = IF i <= k - 1 THEN l[i] ELSE r[i - (k - 1)]
        BY <3>1, <2>1, <2>6, <2>7, <2>8
      <4>2. CASE i < k
        BY <4>1, <4>2, <2>1, <2>7
      <4>3. CASE ~(i < k)
        <5>1. i - (k - 1) \in 1..(Len(s) - k) /\ k + (i - (k - 1)) = i + 1
          BY <4>3, <2>1, <2>6
        <5>2. r[i - (k - 1)] = s[i + 1]
          BY <5>1, <2>8
        <5> QED BY <4>1, <4>3, <5>2, <2>1
      <4> QED BY <4>2, <4>3
    <3> QED BY <3>1, <3>2, <3>3
  <2> HIDE DEF c
  <2>10. NoDup(c)
    BY <2>1, <2>6, <2>9 DEF NoDup
  <2>11. ASSUME NEW u, Listed(u, c) PROVE Listed(u, s) /\ u # t
    <3>1. PICK i \in 1..(Len(s) - 1) : c[i] = u
      BY <2>9, <2>11 DEF Listed
    <3>2. \E j \in 1..Len(s) : s[j] = u /\ j # k
      BY <3>1, <2>1, <2>6, <2>9
    <3> QED BY <3>2, <2>1 DEF Listed, NoDup
  <2>12. ASSUME NEW u, Listed(u, s), u # t PROVE Listed(u, c)
    <3>1. PICK i \in 1..Len(s) : s[i] = u /\ i # k
      BY <2>1, <2>12 DEF Listed
    <3>2. \E j \in 1..(Len(s) - 1) : c[j] = u
      <4>1. CASE i < k
        <5>1. i \in 1..(Len(s) - 1) /\ c[i] = u
          BY <4>1, <3>1, <2>1, <2>6, <2>9
        <5> QED BY <5>1
      <4>2. CASE i > k
        <5>1. i - 1 \in 1..(Len(s) - 1) /\ ~(i - 1 < k) /\ (i - 1) + 1 = i
          BY <4>2, <3>1, <2>1, <2>6
        <5>2. c[i - 1] = u
          BY <5>1, <3>1, <2>9
        <5> QED BY <5>1, <5>2
      <4> QED BY <4>1, <4>2, <3>1, <2>1
    <3> QED BY <3>2, <2>9 DEF Listed
  <2> QED BY <2>1, <2>5, <2>9, <2>10, <2>11, <2>12
<1> QED BY <1>1, <1>2

\* notify() on any line, empty or not.
LEMMA NotifyLine ==
  ASSUME NEW S, NEW s \in Seq(S), NoDup(s)
  PROVE  /\ AfterNotify(s) \in Seq(S)
         /\ NoDup(AfterNotify(s))
         /\ \A u : Listed(u, AfterNotify(s)) <=> Listed(u, s) /\ u \notin WokenBy(s)
         /\ \A u \in WokenBy(s) : u \in S /\ Listed(u, s)
         /\ AfterNotify(s) # <<>> => s # <<>> /\ WokenBy(s) = {Head(s)}
<1>1. CASE s = <<>>
  BY <1>1 DEF AfterNotify, WokenBy
<1>2. CASE s # <<>>
  <2>1. AfterNotify(s) = Tail(s) /\ WokenBy(s) = {Head(s)}
    BY <1>2 DEF AfterNotify, WokenBy
  <2> QED BY <1>2, <2>1, TailLine
<1> QED BY <1>1, <1>2

\* A container of length at most n is a sequence of items of that length.
LEMMA ContainerLen ==
  ASSUME NEW n \in Nat, NEW q
  PROVE  q \in Containers(n) <=> q \in Seq(Items) /\ Len(q) \in 0..n
<1>1. ASSUME q \in Containers(n) PROVE q \in Seq(Items) /\ Len(q) \in 0..n
  <2>1. PICK m \in 0..n : q \in [1..m -> Items]
    BY <1>1 DEF Containers
  <2> QED BY <2>1
<1>2. ASSUME q \in Seq(Items), Len(q) \in 0..n PROVE q \in Containers(n)
  <2>1. q \in [1..Len(q) -> Items]
    BY <1>2, LenProperties
  <2> QED BY <1>2, <2>1 DEF Containers
<1> QED BY <1>1, <1>2

\* The threads notified in a method are finitely many.
LEMMA NotifiedFinite ==
  ASSUME NEW method
  PROVE  /\ IsFiniteSet(Notified(method)) /\ Cardinality(Notified(method)) \in Nat
         /\ IsFiniteSet(Notified(method)') /\ Cardinality(Notified(method)') \in Nat
<1>1. Notified(method) \in SUBSET Threads /\ Notified(method)' \in SUBSET Threads
  BY DEF Notified
<1> QED BY <1>1, QueueAssumption, FS_Subset, FS_CardinalityType

\* Return(), NotifyRaises() and Sleep() leave functions of the right types.
LEMMA ReturnTypes ==
  ASSUME TypeOK, NEW t \in Threads, NEW S, Return(t, S)
  PROVE  /\ call' \in [Threads -> Calls]
         /\ phase' \in [Threads -> Phases]
         /\ timed' \in [Threads -> BOOLEAN]
         /\ missed' \in SUBSET Threads
         /\ \A u \in Threads :
              phase'[u] = IF u = t THEN "run" ELSE IF u \in S THEN Told(u) ELSE phase[u]
BY DEF TypeOK, Return, Out, Told, Calls, Phases

LEMMA RaiseTypes ==
  ASSUME TypeOK, NEW t \in Threads, NEW u \in Threads, NEW line \in Seq(Threads),
         NotifyRaises(t, u, line)
  PROVE  /\ call' \in [Threads -> Calls]
         /\ phase' \in [Threads -> Phases]
         /\ timed' \in [Threads -> BOOLEAN]
         /\ missed' \in SUBSET Threads
         /\ \A v \in Threads :
              phase'[v] = IF v = t THEN "run" ELSE IF v = u THEN Looked(u) ELSE phase[v]
         /\ \A v \in Threads : v \in missed' <=> v # u /\ (v \in missed \/ Listed(v, line))
<1>1. Range(line) = {line[i] : i \in 1..Len(line)}
  BY RangeEquality
<1>2. \A v \in Threads : v \in Range(line) <=> Listed(v, line)
  BY <1>1 DEF Listed
<1>3. Range(line) \in SUBSET Threads
  <2>1. \A i \in 1..Len(line) : line[i] \in Threads
    BY LenProperties
  <2> QED BY <1>1, <2>1
<1>4. phase' \in [Threads -> Phases]
  BY DEF TypeOK, NotifyRaises, Out, Looked, Phases
<1> QED BY <1>2, <1>3, <1>4 DEF TypeOK, NotifyRaises, Out, Calls

LEMMA SleepTypes ==
  ASSUME TypeOK, NEW t \in Threads, NEW method \in Calls, NEW hasTimeout \in BOOLEAN,
         Sleep(t, method, hasTimeout)
  PROVE  /\ call' \in [Threads -> Calls]
         /\ phase' \in [Threads -> Phases]
         /\ timed' \in [Threads -> BOOLEAN]
BY DEF TypeOK, Sleep, Calls, Phases

-----------------------------------------------------------------------------
(* The inductive invariant.                                                *)

LEMMA InitIInv == Init => IInv
<1> SUFFICES ASSUME Init PROVE IInv
  OBVIOUS
<1> USE QueueAssumption DEF Init
<1>1. TypeOK
  <2>1. queue \in Containers(MaxTasks)
    <3>1. queue \in Seq(Items) /\ Len(queue) = 0
      BY EmptySeq
    <3>2. MaxTasks \in Nat /\ Len(queue) \in 0..MaxTasks
      BY <3>1
    <3> QED BY <3>1, <3>2, ContainerLen
  <2>2. (CHOOSE x \in Items : TRUE) \in Items
    OBVIOUS
  <2> QED BY <2>1, <2>2 DEF TypeOK, Calls, Phases
<1>2. Capacity
  BY DEF Capacity
<1>3. WaitersListed
  BY DEF WaitersListed, NoDup, Listed
<1>4. TimedCalls
  BY DEF TimedCalls
<1>5. NoLostItem /\ NoLostSlot /\ JoinersAreWoken
  BY DEF NoLostItem, NoLostSlot, JoinersAreWoken, Awaited, Listed
<1> QED BY <1>1, <1>2, <1>3, <1>4, <1>5 DEF IInv

\* put() that finds a slot: the item goes in, whatever notify() does.
LEMMA PutNowTypes ==
  ASSUME IInv, NEW t \in Threads, NEW x \in Items, PutNow(t, x)
  PROVE  /\ queue' \in Containers(MaxTasks)
         /\ Len(queue) \in Nat /\ Len(queue') = Len(queue) + 1
         /\ unfinished_tasks' \in 0..MaxTasks
         /\ Capacity' /\ JoinersAreWoken'
<1>1. /\ queue' = PutItem(queue, x)
      /\ unfinished_tasks' = unfinished_tasks + 1
      /\ all_tasks_done' = all_tasks_done
      /\ ~Full /\ Len(queue) < MaxTasks /\ unfinished_tasks < MaxTasks
  BY DEF PutNow, Counted
<1>2. queue' \in Containers(MaxTasks) /\ Len(queue') = Len(queue) + 1 /\ Len(queue) \in Nat
  <2>1. queue \in Seq(Items) /\ Len(queue) \in 0..MaxTasks
    BY ContainerLen, QueueAssumption DEF IInv, TypeOK
  <2>2. queue \in Containers(MaxTasks - 1)
    BY <1>1, <2>1, ContainerLen, QueueAssumption
  <2> QED BY <1>1, <2>1, <2>2, ContainerAssumption
<1>3. unfinished_tasks' \in 0..MaxTasks
  BY <1>1, QueueAssumption DEF IInv, TypeOK
<1>4. Capacity'
  BY <1>1, <1>2, QueueAssumption DEF IInv, Capacity, Full
<1>5. JoinersAreWoken'
  BY <1>1 DEF IInv, TypeOK, JoinersAreWoken
<1> QED BY <1>2, <1>3, <1>4, <1>5

\* A getter is notified for the item.
LEMMA PutWakesIInv ==
  ASSUME IInv, NEW t \in Threads, NEW x \in Items, PutNow(t, x),
         not_empty' = AfterNotify(not_empty), Return(t, WokenBy(not_empty))
  PROVE  IInv'
<1> DEFINE W == WokenBy(not_empty)
<1>1. /\ not_empty' = AfterNotify(not_empty)
      /\ call' = [call EXCEPT ![t] = "none"]
      /\ timed' = [timed EXCEPT ![t] = FALSE]
      /\ missed' = missed \ W
      /\ not_full' = not_full /\ all_tasks_done' = all_tasks_done
      /\ arg' = arg /\ hand' = hand /\ lost' = lost
      /\ call[t] = "none" \/ (call[t] = "put" /\ phase[t] \in {"notified", "left"})
  BY DEF PutNow, Return, Out, Calling, Resuming
<1>2. /\ not_empty' \in Seq(Threads) /\ NoDup(not_empty')
      /\ \A u : Listed(u, not_empty') <=> Listed(u, not_empty) /\ u \notin W
      /\ \A u \in W : u \in Threads /\ Listed(u, not_empty)
      /\ not_empty' # <<>> => not_empty # <<>> /\ W = {Head(not_empty)}
  <2>1. not_empty \in Seq(Threads) /\ NoDup(not_empty)
    BY DEF IInv, TypeOK, WaitersListed
  <2> QED BY <1>1, <2>1, NotifyLine
<1>3. \A u \in W : /\ call[u] = "get" /\ phase[u] \in {"asleep", "expired"}
                   /\ u # t
  BY <1>1, <1>2 DEF IInv, WaitersListed
<1>4. /\ call' \in [Threads -> Calls] /\ phase' \in [Threads -> Phases]
      /\ timed' \in [Threads -> BOOLEAN] /\ missed' \in SUBSET Threads
      /\ \A u \in Threads :
           phase'[u] = IF u = t THEN "run" ELSE IF u \in W THEN Told(u) ELSE phase[u]
  BY ReturnTypes DEF IInv
<1>5. TypeOK'
  BY <1>1, <1>2, <1>4, PutNowTypes DEF IInv, TypeOK
<1>6. \A u \in W : Told(u) \in {"notified", "spent"} /\ (Told(u) = "spent" => phase[u] = "expired")
  BY DEF Told
<1>7. WaitersListed'
  <2> HIDE DEF W
  <2> SUFFICES ASSUME NEW u \in Threads
               PROVE  LET waiting == phase'[u] \in {"asleep", "expired"} IN
                      /\ Listed(u, not_empty') <=> waiting /\ call'[u] = "get"
                      /\ Listed(u, not_full) <=> waiting /\ call'[u] = "put"
                      /\ Listed(u, all_tasks_done) <=> waiting /\ call'[u] = "join"
                      /\ u \in missed' => waiting
    BY <1>1, <1>2 DEF IInv, WaitersListed
  <2>1. /\ Listed(u, not_empty) <=> phase[u] \in {"asleep", "expired"} /\ call[u] = "get"
        /\ Listed(u, not_full) <=> phase[u] \in {"asleep", "expired"} /\ call[u] = "put"
        /\ Listed(u, all_tasks_done) <=> phase[u] \in {"asleep", "expired"} /\ call[u] = "join"
        /\ u \in missed => phase[u] \in {"asleep", "expired"}
    BY DEF IInv, WaitersListed
  <2>2. CASE u = t
    <3>1. phase[t] \notin {"asleep", "expired"}
      BY <1>1 DEF IInv, TimedCalls
    <3> QED BY <1>1, <1>2, <1>4, <2>1, <2>2, <3>1 DEF IInv, TypeOK
  <2>3. CASE u \in W
    BY <1>1, <1>2, <1>3, <1>4, <1>6, <2>1, <2>3 DEF IInv, TypeOK
  <2>4. CASE u # t /\ u \notin W
    BY <1>1, <1>2, <1>4, <2>1, <2>4 DEF IInv, TypeOK
  <2> QED BY <2>2, <2>3, <2>4
<1>8. TimedCalls'
  BY <1>1, <1>3, <1>4, <1>6 DEF IInv, TypeOK, TimedCalls
<1>9. NoLostItem'
  <2> SUFFICES ASSUME Awaited(not_empty)'
               PROVE  Cardinality(Notified("get")') >= Len(queue')
    BY DEF NoLostItem
  <2> DEFINE h == Head(not_empty)
  <2>1. PICK u \in Threads : Listed(u, not_empty') /\ u \notin missed'
    BY DEF Awaited
  <2>2. not_empty' # <<>>
    BY <2>1 DEF Listed
  <2>3. not_empty # <<>> /\ W = {h}
    BY <1>2, <2>2
  <2>4. Awaited(not_empty)
    BY <1>1, <1>2, <2>1 DEF Awaited
  <2>5. Notified("get")' = Notified("get") \cup {h} /\ h \notin Notified("get")
    BY <1>1, <1>2, <1>3, <1>4, <1>6, <2>3 DEF Notified, IInv, TypeOK
  <2>6. Cardinality(Notified("get")') = Cardinality(Notified("get")) + 1
    BY <2>5, NotifiedFinite, FS_AddElement
  <2> QED BY <2>4, <2>6, PutNowTypes, NotifiedFinite DEF IInv, NoLostItem
<1>10. NoLostSlot'
  <2>1. Notified("put")' = Notified("put") \ {t}
    BY <1>1, <1>3, <1>4 DEF Notified, IInv, TypeOK
  <2>2. Cardinality(Notified("put")') >= Cardinality(Notified("put")) - 1
    BY <2>1, NotifiedFinite, FS_RemoveElement
  <2>3. Awaited(not_full)' => Awaited(not_full)
    BY <1>1, <1>3 DEF Awaited, IInv, WaitersListed
  <2> QED BY <2>2, <2>3, PutNowTypes, NotifiedFinite, QueueAssumption DEF IInv, NoLostSlot
<1> QED BY <1>5, <1>7, <1>8, <1>9, <1>10, PutNowTypes DEF IInv

\* Nobody is: whoever still sleeps on not_empty has been missed.
LEMMA PutRaisesIInv ==
  ASSUME IInv, NEW t \in Threads, NEW x \in Items, PutNow(t, x),
         NEW u \in Disturbers("get", not_empty),
         not_empty' = RemoveFirst(not_empty, u), NotifyRaises(t, u, not_empty)
  PROVE  IInv'
<1>1. /\ call' = [call EXCEPT ![t] = "none"]
      /\ timed' = [timed EXCEPT ![t] = FALSE]
      /\ not_full' = not_full /\ all_tasks_done' = all_tasks_done
      /\ arg' = arg /\ hand' = hand /\ lost' = lost
      /\ call[t] = "none" \/ (call[t] = "put" /\ phase[t] \in {"notified", "left"})
  BY DEF PutNow, NotifyRaises, Out, Calling, Resuming
<1>2. /\ u \in Threads /\ call[u] = "get" /\ phase[u] \in {"expired", "spent"} /\ u # t
      /\ Looked(u) \in {"left", "notified"} /\ (Looked(u) = "notified" <=> phase[u] = "spent")
  BY <1>1 DEF Disturbers, Looked
<1>3. /\ not_empty' \in Seq(Threads) /\ NoDup(not_empty')
      /\ \A v : Listed(v, not_empty') <=> Listed(v, not_empty) /\ v # u
  BY RemoveLine DEF IInv, TypeOK, WaitersListed
<1>4. /\ call' \in [Threads -> Calls] /\ phase' \in [Threads -> Phases]
      /\ timed' \in [Threads -> BOOLEAN] /\ missed' \in SUBSET Threads
      /\ \A v \in Threads :
           phase'[v] = IF v = t THEN "run" ELSE IF v = u THEN Looked(u) ELSE phase[v]
      /\ \A v \in Threads : v \in missed' <=> v # u /\ (v \in missed \/ Listed(v, not_empty))
  BY <1>2, RaiseTypes DEF IInv, TypeOK
<1>5. TypeOK'
  BY <1>1, <1>3, <1>4, PutNowTypes DEF IInv, TypeOK
<1>6. WaitersListed'
  BY <1>1, <1>2, <1>3, <1>4 DEF IInv, TypeOK, WaitersListed, TimedCalls
<1>7. TimedCalls'
  BY <1>1, <1>2, <1>4 DEF IInv, TypeOK, TimedCalls
<1>8. NoLostItem'
  BY <1>3, <1>4 DEF NoLostItem, Awaited
<1>9. NoLostSlot'
  <2>1. Notified("put")' = Notified("put") \ {t}
    BY <1>1, <1>2, <1>4 DEF Notified, IInv, TypeOK
  <2>2. Cardinality(Notified("put")') >= Cardinality(Notified("put")) - 1
    BY <2>1, NotifiedFinite, FS_RemoveElement
  <2>3. Awaited(not_full)' => Awaited(not_full)
    BY <1>1, <1>2, <1>4 DEF Awaited, IInv, WaitersListed
  <2> QED BY <2>2, <2>3, PutNowTypes, NotifiedFinite, QueueAssumption DEF IInv, NoLostSlot
<1> QED BY <1>5, <1>6, <1>7, <1>8, <1>9, PutNowTypes DEF IInv

\* put() that finds the queue full and sleeps: no slot is free.
LEMMA PutWaitIInv ==
  ASSUME IInv, NEW t \in Threads, NEW x \in Items, NEW tmo \in BOOLEAN, PutWait(t, x, tmo)
  PROVE  IInv'
<1>1. /\ not_full' = Append(not_full, t)
      /\ arg' = [arg EXCEPT ![t] = x]
      /\ call' = [call EXCEPT ![t] = "put"]
      /\ phase' = [phase EXCEPT ![t] = "asleep"]
      /\ timed' = [timed EXCEPT ![t] = tmo]
      /\ queue' = queue /\ unfinished_tasks' = unfinished_tasks /\ hand' = hand
      /\ missed' = missed /\ lost' = lost
      /\ not_empty' = not_empty /\ all_tasks_done' = all_tasks_done
      /\ Full
      /\ call[t] = "none" \/ (call[t] = "put" /\ phase[t] \in {"notified", "left"})
  BY DEF PutWait, Sleep, Calling, Resuming
<1>2. ~Listed(t, not_empty) /\ ~Listed(t, not_full) /\ ~Listed(t, all_tasks_done)
  BY <1>1 DEF IInv, WaitersListed
<1>3. /\ not_full' \in Seq(Threads) /\ NoDup(not_full')
      /\ \A u : Listed(u, not_full') <=> Listed(u, not_full) \/ u = t
  BY <1>1, <1>2, AppendLine DEF IInv, TypeOK, WaitersListed
<1>4. TypeOK'
  <2>1. Sleep(t, "put", tmo)
    BY DEF PutWait
  <2> QED BY <2>1, <1>1, <1>3, SleepTypes DEF IInv, TypeOK, Calls
<1>5. Capacity' /\ JoinersAreWoken'
  BY <1>1 DEF IInv, Capacity, JoinersAreWoken
<1>6. WaitersListed'
  BY <1>1, <1>2, <1>3 DEF IInv, TypeOK, WaitersListed
<1>7. TimedCalls'
  BY <1>1 DEF IInv, TypeOK, TimedCalls
<1>8. NoLostItem'
  <2>1. Notified("get")' = Notified("get")
    BY <1>1 DEF Notified, IInv, TypeOK
  <2> QED BY <2>1, <1>1 DEF IInv, NoLostItem, Awaited
<1>9. NoLostSlot'
  <2>1. Len(queue) \in Nat /\ maxsize - Len(queue) <= 0
    BY <1>1, ContainerLen, QueueAssumption DEF IInv, TypeOK, Full
  <2> QED BY <2>1, <1>1, NotifiedFinite, QueueAssumption DEF NoLostSlot
<1> QED BY <1>4, <1>5, <1>6, <1>7, <1>8, <1>9 DEF IInv

\* put() raises Full, get() raises Empty, join() returns: thread t only leaves.
LEMMA LeaveIInv ==
  ASSUME IInv, NEW t \in Threads, PutFull(t) \/ GetEmpty(t) \/ JoinReturn(t)
  PROVE  IInv'
<1>1. /\ call' = [call EXCEPT ![t] = "none"]
      /\ timed' = [timed EXCEPT ![t] = FALSE]
      /\ Return(t, {}) /\ missed' = missed /\ lost' = lost
      /\ queue' = queue /\ unfinished_tasks' = unfinished_tasks
      /\ not_full' = not_full /\ not_empty' = not_empty
      /\ all_tasks_done' = all_tasks_done
      /\ arg' = arg /\ hand' = hand
      /\ phase[t] \in {"notified", "left"}
  BY DEF PutFull, GetEmpty, JoinReturn, Return, Out, Resuming, lines
<1>2. \/ call[t] = "put" /\ Full
      \/ call[t] = "get" /\ Empty
      \/ call[t] = "join" /\ unfinished_tasks = 0
  BY DEF PutFull, GetEmpty, JoinReturn, Resuming
<1>0. phase' \in [Threads -> Phases] /\ phase'[t] = "run"
      /\ \A u \in Threads : u # t => phase'[u] = phase[u]
  BY <1>1, ReturnTypes DEF IInv
<1>3. TypeOK'
  BY <1>1, ReturnTypes DEF IInv, TypeOK
<1>4. Capacity' /\ JoinersAreWoken'
  BY <1>1 DEF IInv, Capacity, JoinersAreWoken
<1>5. WaitersListed'
  BY <1>0, <1>1 DEF IInv, TypeOK, WaitersListed
<1>6. TimedCalls'
  BY <1>0, <1>1 DEF IInv, TypeOK, TimedCalls
<1>7. Len(queue) \in Nat
  BY ContainerLen, QueueAssumption DEF IInv, TypeOK
<1>8. NoLostItem'
  <2>1. CASE call[t] = "get"
    BY <2>1, <1>1, <1>2, <1>7, NotifiedFinite DEF NoLostItem, Empty
  <2>2. CASE call[t] # "get"
    <3>1. Notified("get")' = Notified("get")
      BY <2>2, <1>0, <1>1 DEF Notified, IInv, TypeOK
    <3> QED BY <3>1, <1>1 DEF IInv, NoLostItem, Awaited
  <2> QED BY <2>1, <2>2
<1>9. NoLostSlot'
  <2>1. CASE call[t] = "put"
    BY <2>1, <1>1, <1>2, <1>7, NotifiedFinite, QueueAssumption DEF NoLostSlot, Full
  <2>2. CASE call[t] # "put"
    <3>1. Notified("put")' = Notified("put")
      BY <2>2, <1>0, <1>1 DEF Notified, IInv, TypeOK
    <3> QED BY <3>1, <1>1 DEF IInv, NoLostSlot, Awaited
  <2> QED BY <2>1, <2>2
<1> QED BY <1>3, <1>4, <1>5, <1>6, <1>8, <1>9 DEF IInv

\* get() that finds an item: it comes out, whatever notify() does.
LEMMA GetNowTypes ==
  ASSUME IInv, NEW t \in Threads, GetNow(t)
  PROVE  /\ queue' \in Containers(MaxTasks)
         /\ Len(queue) \in Nat /\ Len(queue') = Len(queue) - 1
         /\ unfinished_tasks' \in 0..MaxTasks
         /\ Capacity' /\ JoinersAreWoken'
<1>1. /\ queue' = GetItem(queue) /\ Len(queue) # 0
      /\ unfinished_tasks' = unfinished_tasks
      /\ all_tasks_done' = all_tasks_done
  BY DEF GetNow, Empty
<1>2. queue' \in Containers(MaxTasks) /\ Len(queue') = Len(queue) - 1 /\ Len(queue) \in Nat
  <2>1. queue \in Seq(Items) /\ Len(queue) \in 0..MaxTasks
    BY ContainerLen, QueueAssumption DEF IInv, TypeOK
  <2>2. queue # <<>>
    BY <1>1, EmptySeq
  <2> QED BY <1>1, <2>1, <2>2, ContainerAssumption DEF IInv, TypeOK
<1>3. Capacity' /\ JoinersAreWoken'
  BY <1>1, <1>2, QueueAssumption DEF IInv, Capacity, JoinersAreWoken
<1> QED BY <1>1, <1>2, <1>3 DEF IInv, TypeOK

\* A putter is notified for the slot.
LEMMA GetWakesIInv ==
  ASSUME IInv, NEW t \in Threads, GetNow(t), NotifyNotFull(t),
         hand' = [hand EXCEPT ![t] = @ + 1], lost' = lost
  PROVE  IInv'
<1> DEFINE W == WokenBy(not_full)
<1>1. /\ not_full' = AfterNotify(not_full) /\ Return(t, W)
      /\ call' = [call EXCEPT ![t] = "none"]
      /\ timed' = [timed EXCEPT ![t] = FALSE]
      /\ missed' = missed \ W
      /\ not_empty' = not_empty /\ all_tasks_done' = all_tasks_done
      /\ arg' = arg
      /\ Free(t)
      /\ call[t] = "none" \/ (call[t] = "get" /\ phase[t] \in {"notified", "left"})
  BY DEF GetNow, NotifyNotFull, Return, Out, Calling, Resuming
<1>2. /\ not_full' \in Seq(Threads) /\ NoDup(not_full')
      /\ \A u : Listed(u, not_full') <=> Listed(u, not_full) /\ u \notin W
      /\ \A u \in W : u \in Threads /\ Listed(u, not_full)
      /\ not_full' # <<>> => not_full # <<>> /\ W = {Head(not_full)}
  BY <1>1, NotifyLine DEF IInv, TypeOK, WaitersListed
<1>3. \A u \in W : /\ call[u] = "put" /\ phase[u] \in {"asleep", "expired"}
                   /\ u # t
  BY <1>1, <1>2 DEF IInv, WaitersListed
<1>4. /\ call' \in [Threads -> Calls] /\ phase' \in [Threads -> Phases]
      /\ timed' \in [Threads -> BOOLEAN] /\ missed' \in SUBSET Threads
      /\ \A u \in Threads :
           phase'[u] = IF u = t THEN "run" ELSE IF u \in W THEN Told(u) ELSE phase[u]
  BY <1>1, ReturnTypes DEF IInv
<1>5. TypeOK'
  <2>1. hand[t] + 1 \in 0..MaxTasks
    BY <1>1, QueueAssumption DEF IInv, TypeOK, Free
  <2>2. hand' \in [Threads -> 0..MaxTasks]
    BY <2>1 DEF IInv, TypeOK
  <2> QED BY <2>2, <1>1, <1>2, <1>4, GetNowTypes DEF IInv, TypeOK
<1>6. \A u \in W : Told(u) \in {"notified", "spent"} /\ (Told(u) = "spent" => phase[u] = "expired")
  BY DEF Told
<1>7. WaitersListed'
  <2> HIDE DEF W
  <2> SUFFICES ASSUME NEW u \in Threads
               PROVE  LET waiting == phase'[u] \in {"asleep", "expired"} IN
                      /\ Listed(u, not_full') <=> waiting /\ call'[u] = "put"
                      /\ Listed(u, not_empty) <=> waiting /\ call'[u] = "get"
                      /\ Listed(u, all_tasks_done) <=> waiting /\ call'[u] = "join"
                      /\ u \in missed' => waiting
    BY <1>1, <1>2 DEF IInv, WaitersListed
  <2>1. /\ Listed(u, not_full) <=> phase[u] \in {"asleep", "expired"} /\ call[u] = "put"
        /\ Listed(u, not_empty) <=> phase[u] \in {"asleep", "expired"} /\ call[u] = "get"
        /\ Listed(u, all_tasks_done) <=> phase[u] \in {"asleep", "expired"} /\ call[u] = "join"
        /\ u \in missed => phase[u] \in {"asleep", "expired"}
    BY DEF IInv, WaitersListed
  <2>2. CASE u = t
    <3>1. phase[t] \notin {"asleep", "expired"}
      BY <1>1 DEF IInv, TimedCalls
    <3> QED BY <1>1, <1>2, <1>4, <2>1, <2>2, <3>1 DEF IInv, TypeOK
  <2>3. CASE u \in W
    BY <1>1, <1>2, <1>3, <1>4, <1>6, <2>1, <2>3 DEF IInv, TypeOK
  <2>4. CASE u # t /\ u \notin W
    BY <1>1, <1>2, <1>4, <2>1, <2>4 DEF IInv, TypeOK
  <2> QED BY <2>2, <2>3, <2>4
<1>8. TimedCalls'
  BY <1>1, <1>3, <1>4, <1>6 DEF IInv, TypeOK, TimedCalls
<1>9. NoLostSlot'
  <2> SUFFICES ASSUME Awaited(not_full)'
               PROVE  Cardinality(Notified("put")') >= maxsize - Len(queue')
    BY DEF NoLostSlot
  <2> DEFINE h == Head(not_full)
  <2>1. PICK u \in Threads : Listed(u, not_full') /\ u \notin missed'
    BY DEF Awaited
  <2>2. not_full' # <<>>
    BY <2>1 DEF Listed
  <2>3. not_full # <<>> /\ W = {h}
    BY <1>2, <2>2
  <2>4. Awaited(not_full)
    BY <1>1, <1>2, <2>1 DEF Awaited
  <2>5. Notified("put")' = Notified("put") \cup {h} /\ h \notin Notified("put")
    BY <1>1, <1>2, <1>3, <1>4, <1>6, <2>3 DEF Notified, IInv, TypeOK
  <2>6. Cardinality(Notified("put")') = Cardinality(Notified("put")) + 1
    BY <2>5, NotifiedFinite, FS_AddElement
  <2> QED BY <2>4, <2>6, GetNowTypes, NotifiedFinite, QueueAssumption DEF IInv, NoLostSlot
<1>10. NoLostItem'
  <2>1. Notified("get")' = Notified("get") \ {t}
    BY <1>1, <1>3, <1>4 DEF Notified, IInv, TypeOK
  <2>2. Cardinality(Notified("get")') >= Cardinality(Notified("get")) - 1
    BY <2>1, NotifiedFinite, FS_RemoveElement
  <2>3. Awaited(not_empty)' => Awaited(not_empty)
    BY <1>1, <1>3 DEF Awaited, IInv, WaitersListed
  <2> QED BY <2>2, <2>3, GetNowTypes, NotifiedFinite DEF IInv, NoLostItem
<1> QED BY <1>5, <1>7, <1>8, <1>9, <1>10, GetNowTypes DEF IInv

\* Nobody is: the item is lost, and whoever still sleeps on not_full has been
\* missed.
LEMMA GetRaisesIInv ==
  ASSUME IInv, NEW t \in Threads, GetNow(t), NotFullRaises(t), hand' = hand,
         lost' = lost + 1, lost < MaxLost
  PROVE  IInv'
<1>1. /\ call' = [call EXCEPT ![t] = "none"]
      /\ timed' = [timed EXCEPT ![t] = FALSE]
      /\ not_empty' = not_empty /\ all_tasks_done' = all_tasks_done
      /\ arg' = arg
      /\ call[t] = "none" \/ (call[t] = "get" /\ phase[t] \in {"notified", "left"})
  BY DEF GetNow, NotFullRaises, NotifyRaises, Out, Calling, Resuming
<1>2. PICK u \in Disturbers("put", not_full) :
        not_full' = RemoveFirst(not_full, u) /\ NotifyRaises(t, u, not_full)
  BY DEF NotFullRaises
<1>3. /\ u \in Threads /\ call[u] = "put" /\ phase[u] \in {"expired", "spent"} /\ u # t
      /\ Looked(u) \in {"left", "notified"} /\ (Looked(u) = "notified" <=> phase[u] = "spent")
  BY <1>1 DEF Disturbers, Looked
<1>4. /\ not_full' \in Seq(Threads) /\ NoDup(not_full')
      /\ \A v : Listed(v, not_full') <=> Listed(v, not_full) /\ v # u
  BY <1>2, RemoveLine DEF IInv, TypeOK, WaitersListed
<1>5. /\ call' \in [Threads -> Calls] /\ phase' \in [Threads -> Phases]
      /\ timed' \in [Threads -> BOOLEAN] /\ missed' \in SUBSET Threads
      /\ \A v \in Threads :
           phase'[v] = IF v = t THEN "run" ELSE IF v = u THEN Looked(u) ELSE phase[v]
      /\ \A v \in Threads : v \in missed' <=> v # u /\ (v \in missed \/ Listed(v, not_full))
  BY <1>2, <1>3, RaiseTypes DEF IInv, TypeOK
<1>6. TypeOK'
  <2>1. lost' \in 0..MaxLost
    BY QueueAssumption DEF IInv, TypeOK
  <2> QED BY <2>1, <1>1, <1>4, <1>5, GetNowTypes DEF IInv, TypeOK
<1>7. WaitersListed'
  BY <1>1, <1>3, <1>4, <1>5 DEF IInv, TypeOK, WaitersListed, TimedCalls
<1>8. TimedCalls'
  BY <1>1, <1>3, <1>5 DEF IInv, TypeOK, TimedCalls
<1>9. NoLostSlot'
  BY <1>4, <1>5 DEF NoLostSlot, Awaited
<1>10. NoLostItem'
  <2>1. Notified("get")' = Notified("get") \ {t}
    BY <1>1, <1>3, <1>5 DEF Notified, IInv, TypeOK
  <2>2. Cardinality(Notified("get")') >= Cardinality(Notified("get")) - 1
    BY <2>1, NotifiedFinite, FS_RemoveElement
  <2>3. Awaited(not_empty)' => Awaited(not_empty)
    BY <1>1, <1>3, <1>5 DEF Awaited, IInv, WaitersListed
  <2> QED BY <2>2, <2>3, GetNowTypes, NotifiedFinite DEF IInv, NoLostItem
<1> QED BY <1>6, <1>7, <1>8, <1>9, <1>10, GetNowTypes DEF IInv

\* get() that finds nothing and sleeps: there is no item to be woken for.
LEMMA GetWaitIInv ==
  ASSUME IInv, NEW t \in Threads, NEW tmo \in BOOLEAN, GetWait(t, tmo)
  PROVE  IInv'
<1>1. /\ not_empty' = Append(not_empty, t)
      /\ call' = [call EXCEPT ![t] = "get"]
      /\ phase' = [phase EXCEPT ![t] = "asleep"]
      /\ timed' = [timed EXCEPT ![t] = tmo]
      /\ queue' = queue /\ unfinished_tasks' = unfinished_tasks /\ hand' = hand
      /\ missed' = missed /\ lost' = lost
      /\ arg' = arg /\ not_full' = not_full /\ all_tasks_done' = all_tasks_done
      /\ Len(queue) = 0
      /\ call[t] = "none" \/ (call[t] = "get" /\ phase[t] \in {"notified", "left"})
  BY DEF GetWait, Sleep, Calling, Resuming, Empty
<1>2. ~Listed(t, not_empty) /\ ~Listed(t, not_full) /\ ~Listed(t, all_tasks_done)
  BY <1>1 DEF IInv, WaitersListed
<1>3. /\ not_empty' \in Seq(Threads) /\ NoDup(not_empty')
      /\ \A u : Listed(u, not_empty') <=> Listed(u, not_empty) \/ u = t
  BY <1>1, <1>2, AppendLine DEF IInv, TypeOK, WaitersListed
<1>4. TypeOK'
  <2>1. Sleep(t, "get", tmo)
    BY DEF GetWait
  <2> QED BY <2>1, <1>1, <1>3, SleepTypes DEF IInv, TypeOK, Calls
<1>5. Capacity' /\ JoinersAreWoken'
  BY <1>1 DEF IInv, Capacity, JoinersAreWoken
<1>6. WaitersListed'
  BY <1>1, <1>2, <1>3 DEF IInv, TypeOK, WaitersListed
<1>7. TimedCalls'
  BY <1>1 DEF IInv, TypeOK, TimedCalls
<1>8. NoLostSlot'
  <2>1. Notified("put")' = Notified("put")
    BY <1>1 DEF Notified, IInv, TypeOK
  <2> QED BY <2>1, <1>1 DEF IInv, NoLostSlot, Awaited
<1>9. NoLostItem'
  BY <1>1, NotifiedFinite DEF NoLostItem
<1> QED BY <1>4, <1>5, <1>6, <1>7, <1>8, <1>9 DEF IInv

\* join() with tasks unfinished: the joiner has something to be woken for.
LEMMA JoinWaitIInv ==
  ASSUME IInv, NEW t \in Threads, JoinWait(t)
  PROVE  IInv'
<1>1. /\ all_tasks_done' = Append(all_tasks_done, t)
      /\ call' = [call EXCEPT ![t] = "join"]
      /\ phase' = [phase EXCEPT ![t] = "asleep"]
      /\ timed' = [timed EXCEPT ![t] = FALSE]
      /\ queue' = queue /\ unfinished_tasks' = unfinished_tasks /\ hand' = hand
      /\ missed' = missed /\ lost' = lost
      /\ arg' = arg /\ not_full' = not_full /\ not_empty' = not_empty
      /\ unfinished_tasks > 0
      /\ call[t] = "none" \/ (call[t] = "join" /\ phase[t] \in {"notified", "left"})
  BY DEF JoinWait, Sleep, Calling, Resuming
<1>2. ~Listed(t, not_empty) /\ ~Listed(t, not_full) /\ ~Listed(t, all_tasks_done)
  BY <1>1 DEF IInv, WaitersListed
<1>3. /\ all_tasks_done' \in Seq(Threads) /\ NoDup(all_tasks_done')
      /\ \A u : Listed(u, all_tasks_done') <=> Listed(u, all_tasks_done) \/ u = t
  BY <1>1, <1>2, AppendLine DEF IInv, TypeOK, WaitersListed
<1>4. TypeOK'
  <2>1. Sleep(t, "join", FALSE)
    BY DEF JoinWait
  <2> QED BY <2>1, <1>1, <1>3, SleepTypes DEF IInv, TypeOK, Calls
<1>5. Capacity' /\ JoinersAreWoken'
  BY <1>1 DEF IInv, Capacity, JoinersAreWoken
<1>6. WaitersListed'
  BY <1>1, <1>2, <1>3 DEF IInv, TypeOK, WaitersListed
<1>7. TimedCalls'
  BY <1>1 DEF IInv, TypeOK, TimedCalls
<1>8. Notified("put")' = Notified("put") /\ Notified("get")' = Notified("get")
  BY <1>1 DEF Notified, IInv, TypeOK
<1>9. NoLostItem' /\ NoLostSlot'
  BY <1>1, <1>2, <1>8 DEF IInv, NoLostItem, NoLostSlot, Awaited
<1> QED BY <1>4, <1>5, <1>6, <1>7, <1>9 DEF IInv

\* task_done(): the last one wakes every joiner, the others wake nobody.
LEMMA TaskDoneIInv ==
  ASSUME IInv, NEW t \in Threads, TaskDone(t)
  PROVE  IInv'
<1>1. /\ call[t] = "none"
      /\ unfinished_tasks > 0 /\ unfinished_tasks' = unfinished_tasks - 1
      /\ hand' = [hand EXCEPT ![t] = IF @ > 0 THEN @ - 1 ELSE 0]
      /\ queue' = queue /\ not_empty' = not_empty /\ not_full' = not_full
      /\ arg' = arg /\ lost' = lost
  BY DEF TaskDone, Calling
<1>2. unfinished_tasks' \in 0..MaxTasks
  BY <1>1, QueueAssumption DEF IInv, TypeOK
<1>3. hand' \in [Threads -> 0..MaxTasks]
  <2>1. ASSUME NEW u \in Threads PROVE hand'[u] \in 0..MaxTasks
    BY <1>1, QueueAssumption DEF IInv, TypeOK
  <2> QED BY <1>1, <2>1 DEF IInv, TypeOK
<1>4. Capacity'
  BY <1>1 DEF IInv, Capacity
<1>5. CASE unfinished_tasks = 1
  <2> DEFINE J == Range(all_tasks_done)
  <2>1. /\ all_tasks_done' = <<>>
        /\ Return(t, J)
        /\ call' = [call EXCEPT ![t] = "none"]
        /\ timed' = [timed EXCEPT ![t] = FALSE]
        /\ missed' = missed \ J
    BY <1>5 DEF TaskDone, NotifyAllDone, Return, Out
  <2>2. \A u \in Threads : u \in J <=> Listed(u, all_tasks_done)
    <3>1. all_tasks_done \in Seq(Threads)
      BY DEF IInv, TypeOK
    <3>2. J = {all_tasks_done[i] : i \in 1..Len(all_tasks_done)}
      BY <3>1, RangeEquality
    <3> QED BY <3>2 DEF Listed
  <2>3. \A u \in Threads : u \in J <=> call[u] = "join" /\ phase[u] = "asleep"
    BY <2>2 DEF IInv, WaitersListed, TimedCalls
  <2>0. /\ phase' \in [Threads -> Phases]
        /\ \A u \in Threads :
             phase'[u] = IF u = t THEN "run" ELSE IF u \in J THEN "notified" ELSE phase[u]
    BY <2>1, <2>3, ReturnTypes DEF IInv, Told
  <2>4. TypeOK'
    <3>1. all_tasks_done' \in Seq(Threads)
      BY <2>1, EmptySeq
    <3> QED BY <3>1, <2>1, <1>1, <1>2, <1>3, ReturnTypes DEF IInv, TypeOK
  <2>5. WaitersListed'
    <3>1. NoDup(all_tasks_done') /\ \A u : ~Listed(u, all_tasks_done')
      BY <2>1 DEF NoDup, Listed
    <3> QED BY <3>1, <2>0, <2>1, <2>3, <1>1 DEF IInv, TypeOK, WaitersListed, TimedCalls
  <2>6. TimedCalls'
    BY <2>0, <2>1, <2>3 DEF IInv, TypeOK, TimedCalls
  <2>7. Notified("put")' = Notified("put") /\ Notified("get")' = Notified("get")
    BY <1>1, <2>0, <2>1, <2>3 DEF Notified, IInv, TypeOK
  <2>9. Awaited(not_empty)' = Awaited(not_empty) /\ Awaited(not_full)' = Awaited(not_full)
    <3>1. \A u \in Threads : Listed(u, not_empty) \/ Listed(u, not_full) => u \notin J
      BY <2>3 DEF IInv, WaitersListed
    <3> QED BY <3>1, <1>1, <2>1 DEF Awaited
  <2>8. NoLostItem' /\ NoLostSlot' /\ JoinersAreWoken'
    BY <1>1, <2>1, <2>7, <2>9 DEF IInv, NoLostItem, NoLostSlot, JoinersAreWoken, Listed
  <2> QED BY <1>4, <2>4, <2>5, <2>6, <2>8 DEF IInv
<1>6. CASE unfinished_tasks # 1
  <2>1. /\ all_tasks_done' = all_tasks_done
        /\ call' = call /\ phase' = phase /\ timed' = timed /\ missed' = missed
    BY <1>6 DEF TaskDone
  <2>2. TypeOK'
    BY <2>1, <1>1, <1>2, <1>3 DEF IInv, TypeOK
  <2>3. WaitersListed' /\ TimedCalls'
    BY <2>1, <1>1 DEF IInv, WaitersListed, TimedCalls
  <2>4. NoLostItem' /\ NoLostSlot'
    BY <2>1, <1>1 DEF IInv, NoLostItem, NoLostSlot, Notified, Awaited
  <2>5. JoinersAreWoken'
    BY <2>1, <1>1, <1>6 DEF IInv, TypeOK, JoinersAreWoken
  <2> QED BY <1>4, <2>2, <2>3, <2>4, <2>5 DEF IInv
<1> QED BY <1>5, <1>6

\* A timed wait that expires stays listed, and is not counted as notified.
LEMMA ExpireIInv ==
  ASSUME IInv, NEW t \in Threads, Expire(t)
  PROVE  IInv'
<1>1. /\ phase' = [phase EXCEPT ![t] = "expired"]
      /\ phase[t] = "asleep" /\ timed[t]
      /\ queue' = queue /\ unfinished_tasks' = unfinished_tasks
      /\ not_full' = not_full /\ not_empty' = not_empty
      /\ all_tasks_done' = all_tasks_done
      /\ call' = call /\ timed' = timed /\ arg' = arg /\ hand' = hand
      /\ missed' = missed /\ lost' = lost
  BY DEF Expire, lines
<1>2. TypeOK'
  BY <1>1 DEF IInv, TypeOK, Phases
<1>3. Capacity' /\ JoinersAreWoken'
  BY <1>1 DEF IInv, Capacity, JoinersAreWoken
<1>4. WaitersListed' /\ TimedCalls'
  BY <1>1 DEF IInv, TypeOK, WaitersListed, TimedCalls
<1>5. Notified("put")' = Notified("put") /\ Notified("get")' = Notified("get")
  BY <1>1 DEF Notified, IInv, TypeOK
<1>6. NoLostItem' /\ NoLostSlot'
  BY <1>1, <1>5 DEF IInv, NoLostItem, NoLostSlot, Awaited
<1> QED BY <1>2, <1>3, <1>4, <1>6 DEF IInv

\* It leaves the line it is on, and no other.
LEMMA RemoveSelfIInv ==
  ASSUME IInv, NEW t \in Threads, RemoveSelf(t)
  PROVE  IInv'
<1>1. /\ phase' = [phase EXCEPT ![t] = Looked(t)]
      /\ phase[t] \in {"expired", "spent"}
      /\ Looked(t) \in {"left", "notified"} /\ (Looked(t) = "notified" <=> phase[t] = "spent")
      /\ missed' = missed \ {t} /\ lost' = lost
      /\ not_empty' = RemoveFirst(not_empty, t)
      /\ not_full' = RemoveFirst(not_full, t)
      /\ queue' = queue /\ unfinished_tasks' = unfinished_tasks
      /\ all_tasks_done' = all_tasks_done
      /\ call' = call /\ timed' = timed /\ arg' = arg /\ hand' = hand
  BY DEF RemoveSelf, Looked
<1>2. call[t] \in {"put", "get"}
  BY <1>1 DEF IInv, TimedCalls
<1>3. /\ not_empty' \in Seq(Threads) /\ NoDup(not_empty')
      /\ \A u : Listed(u, not_empty') <=> Listed(u, not_empty) /\ u # t
      /\ not_full' \in Seq(Threads) /\ NoDup(not_full')
      /\ \A u : Listed(u, not_full') <=> Listed(u, not_full) /\ u # t
  BY <1>1, RemoveLine DEF IInv, TypeOK, WaitersListed
<1>4. TypeOK'
  BY <1>1, <1>3 DEF IInv, TypeOK, Phases
<1>5. Capacity' /\ JoinersAreWoken'
  BY <1>1 DEF IInv, Capacity, JoinersAreWoken
<1>6. WaitersListed' /\ TimedCalls'
  BY <1>1, <1>2, <1>3 DEF IInv, TypeOK, WaitersListed, TimedCalls
<1>7. Notified("put")' = Notified("put") /\ Notified("get")' = Notified("get")
  BY <1>1 DEF Notified, IInv, TypeOK
<1>9. NoLostItem' /\ NoLostSlot'
  BY <1>1, <1>3, <1>7 DEF IInv, NoLostItem, NoLostSlot, Awaited
<1> QED BY <1>4, <1>5, <1>6, <1>9 DEF IInv

LEMMA NextIInv == IInv /\ [Next]_vars => IInv'
<1> SUFFICES ASSUME IInv, [Next]_vars PROVE IInv'
  OBVIOUS
<1>1. ASSUME NEW t \in Threads, Step(t) PROVE IInv'
  <2>1. CASE \E x \in Items : PutNow(t, x)
    <3>1. PICK x \in Items : PutNow(t, x)
      BY <2>1
    <3>2. \/ not_empty' = AfterNotify(not_empty) /\ Return(t, WokenBy(not_empty))
          \/ \E u \in Disturbers("get", not_empty) :
               not_empty' = RemoveFirst(not_empty, u) /\ NotifyRaises(t, u, not_empty)
      BY <3>1 DEF PutNow, NotifyNotEmpty
    <3> QED BY <3>1, <3>2, PutWakesIInv, PutRaisesIInv
  <2>2. CASE \E x \in Items, tmo \in BOOLEAN : PutWait(t, x, tmo)
    BY <2>2, PutWaitIInv
  <2>3. CASE PutFull(t) \/ GetEmpty(t) \/ JoinReturn(t)
    BY <2>3, LeaveIInv
  <2>4. CASE GetNow(t)
    BY <2>4, GetWakesIInv, GetRaisesIInv DEF GetNow
  <2>5. CASE \E tmo \in BOOLEAN : GetWait(t, tmo)
    BY <2>5, GetWaitIInv
  <2>6. CASE TaskDone(t)
    BY <2>6, TaskDoneIInv
  <2>7. CASE JoinWait(t)
    BY <2>7, JoinWaitIInv
  <2>8. CASE Expire(t)
    BY <2>8, ExpireIInv
  <2>9. CASE RemoveSelf(t)
    BY <2>9, RemoveSelfIInv
  <2> QED BY <1>1, <2>1, <2>2, <2>3, <2>4, <2>5, <2>6, <2>7, <2>8, <2>9 DEF Step
<1>2. CASE UNCHANGED vars
  BY <1>2 DEF vars, IInv, TypeOK, Capacity, WaitersListed, TimedCalls,
              NoLostItem, NoLostSlot, JoinersAreWoken, Notified, Awaited
<1> QED BY <1>1, <1>2 DEF Next

-----------------------------------------------------------------------------
(* The theorems.                                                           *)

\* The inductive invariant holds in every reachable state.
THEOREM Invariance == Spec => []IInv
BY InitIInv, NextIInv, PTL DEF Spec

\* The variables of the queue keep their types.
THEOREM TypeCorrect == Spec => []TypeOK
<1>1. IInv => TypeOK
  BY DEF IInv
<1> QED BY <1>1, Invariance, PTL

\* A bounded queue never holds more than maxsize items.
THEOREM NeverOverfull == Spec => []Capacity
<1>1. IInv => Capacity
  BY DEF IInv
<1> QED BY <1>1, Invariance, PTL

\* Each condition lists exactly the threads that sleep on it, each once.
THEOREM NoGhosts == Spec => []WaitersListed
<1>1. IInv => WaitersListed
  BY DEF IInv
<1> QED BY <1>1, Invariance, PTL

\* put() and get(): no getter sleeps while items outnumber the getters that have
\* been notified, unless a notify() raised over its head.
THEOREM NoItemIsLost == Spec => []NoLostItem
<1>1. IInv => NoLostItem
  BY DEF IInv
<1> QED BY <1>1, Invariance, PTL

\* get() and put(): no putter sleeps while free slots outnumber the notified
\* putters, unless a notify() raised over its head.
THEOREM NoSlotIsLost == Spec => []NoLostSlot
<1>1. IInv => NoLostSlot
  BY DEF IInv
<1> QED BY <1>1, Invariance, PTL

\* Nobody sleeps in join() when no task is unfinished.
THEOREM NoJoinerIsLost == Spec => []JoinersAreWoken
<1>1. IInv => JoinersAreWoken
  BY DEF IInv
<1> QED BY <1>1, Invariance, PTL

-----------------------------------------------------------------------------
(***************************************************************************)
(* Buffered streams.                                                       *)
(***************************************************************************)

Reads == {"read", "readall", "readinto", "read1", "peek"}

\* A BufferedReader or a BufferedWriter: it has the methods of one direction.
\* A file does not block, a pipe cannot seek.  A writer that seeks has one
\* user (the bound of Seek on what is behind the end of the file looks at the
\* moment when the call begins).
OneWay ==
  /\ use.writable = ~use.readable
  /\ use.readable => use.methods \cap {"write", "truncate"} = {}
  /\ use.writable => use.methods \cap Reads = {}
  /\ use.seekable => ~use.nonblocking
  /\ ~use.seekable => use.methods \cap {"seek", "tell", "truncate"} = {}
  /\ use.writable /\ "seek" \in use.methods => \A t, u \in use.threads : t = u

Places == {"idle", "lock", "generic", "reset", "fill", "directread", "readall", "read1",
           "write", "flush", "flushwrite", "direct", "directwrite", "rawseek", "truncate"}

Ops == Reads \cup {"write", "flush", "seek", "truncate", "none"}

CallRecords ==
  [pc : Places, op : Ops, n : Int, asked : Nat, got : Seq(Bytes), data : Seq(Bytes),
   target : Int, whence : 0..2]

Marks ==
  [abs_pos : Int, pos : 0..BufferSize, raw_pos : Int, read_end : -1..BufferSize,
   write_pos : 0..BufferSize, write_end : -1..BufferSize]

RawTypes ==
  /\ file \in Seq(Bytes)
  /\ at \in Nat
  /\ mem \in Seq(Bytes) /\ Len(mem) = BufferSize
  /\ b \in Marks

StreamTypes ==
  /\ use \in Uses
  /\ OneWay
  /\ RawTypes
  /\ calls \in [Callers -> CallRecords]

\* Which methods come to which place.
OpAt(op, pc) ==
  /\ pc = "idle" => op = "none"
  /\ pc # "idle" => op # "none"
  /\ pc = "generic" => op \in {"read", "readall"}
  /\ pc = "reset" => op \in Reads \cup {"flush", "truncate"}
  /\ pc = "fill" => op \in {"read", "readinto", "peek"}
  /\ pc = "directread" => op \in {"read", "readinto"}
  /\ pc \in {"readall", "read1", "truncate"} => op = pc
  /\ pc \in {"write", "direct", "directwrite"} => op = "write"
  /\ pc \in {"flush", "flushwrite"} => op \in {"write", "flush", "seek", "truncate"}
  /\ pc = "rawseek" => op = "seek"

\* A call under way is one that a user of the stream has made, and holds the
\* lock where it goes to the buffer or to the raw stream.
CallOK(t) ==
  LET c == calls[t] IN
  /\ OpAt(c.op, c.pc)
  /\ c.pc # "idle" => t \in use.threads /\ c.op \in use.methods
  /\ c.pc \notin {"idle", "lock"} => owner = t
  /\ c.pc \in {"flush", "flushwrite"} => use.writable
  /\ c.op \in {"read", "readinto", "read1"} => c.n > 0

\* What the marks of the buffer are where a call goes to the raw stream.
PlaceOK(t) ==
  LET c == calls[t] IN
  /\ c.pc \in {"directread", "readall", "read1"} => b.read_end = -1
  /\ c.pc = "directread" /\ c.op = "readinto" => b.pos = 0
  /\ c.pc = "fill" /\ c.op = "peek" => b.read_end = -1
  /\ c.pc = "fill" /\ c.op # "peek" => b.pos = IF b.read_end = -1 THEN 0 ELSE b.read_end
  /\ c.pc = "flushwrite" => b.write_end # -1 /\ b.write_pos < b.write_end
  /\ c.pc \in {"direct", "directwrite"} => b.write_end \in {-1, b.write_pos}
  /\ c.pc = "rawseek" => b.write_end = -1

\* A reader: the raw stream is where the cache says, or at its end (readall()
\* does not tell the cache) with nothing in the buffer.
ReaderOK ==
  /\ b.write_end = -1
  /\ b.read_end # -1 => b.pos <= b.read_end
  /\ ~use.seekable => b.abs_pos = -1
  /\ b.abs_pos \in {-1, at} \/ (Len(file) <= at /\ b.read_end \in {-1, b.pos})

\* A writer: the caller is at the end of what is pending and the raw stream
\* where it begins, inside the file.
WriterOK ==
  /\ b.read_end = -1
  /\ b.write_end # -1 =>
       b.write_pos <= b.write_end /\ b.pos = b.write_end /\ b.raw_pos = b.write_pos
  /\ b.write_end \in {-1, b.write_pos} => b.write_pos = 0
  /\ at <= Len(file)

\* How many bytes are pending.
InWait == IF b.write_end = -1 THEN 0 ELSE b.write_end - b.write_pos

\* A seek() under way ends inside the file, once what is pending is written.
SeekOK(t) ==
  LET c == calls[t] IN
  c.op = "seek" =>
    /\ c.whence = 0 => c.target <= Len(file) \/ c.target <= at + InWait
    /\ c.whence = 1 => c.target <= 0 \/ at + InWait + c.target <= Len(file)
    /\ c.whence = 2 => c.target <= 0

StreamOK == (use.readable => ReaderOK) /\ (use.writable => WriterOK)

StreamInv ==
  /\ StreamTypes
  /\ \A t \in Callers : CallOK(t) /\ PlaceOK(t) /\ (use.writable => SeekOK(t))
  /\ StreamOK

-----------------------------------------------------------------------------
(* Sequences of bytes.                                                     *)

\* A part of a sequence.
LEMMA SliceSeq ==
  ASSUME NEW S, NEW s \in Seq(S), NEW p \in Nat, NEW n \in Nat, p + n <= Len(s)
  PROVE  Slice(s, p, n) \in Seq(S) /\ Len(Slice(s, p, n)) = n
  BY DEF Slice

LEMMA PrefixSeq ==
  ASSUME NEW S, NEW s \in Seq(S), NEW k \in 0..Len(s)
  PROVE  SubSeq(s, 1, k) \in Seq(S) /\ Len(SubSeq(s, 1, k)) = k
  OBVIOUS

\* Writing over a sequence, inside it or at its end, makes it no shorter.
LEMMA OverlaySeq ==
  ASSUME NEW S, NEW s \in Seq(S), NEW d \in Seq(S), NEW p \in 0..Len(s)
  PROVE  /\ Overlay(s, p, d) \in Seq(S)
         /\ Len(Overlay(s, p, d)) = IF p + Len(d) <= Len(s) THEN Len(s) ELSE p + Len(d)
  <1> DEFINE a == SubSeq(s, 1, p)
             e == SubSeq(s, p + Len(d) + 1, Len(s))
  <1>1. a \in Seq(S) /\ Len(a) = p
    BY PrefixSeq
  <1>2. e \in Seq(S) /\ Len(e) = IF p + Len(d) <= Len(s) THEN Len(s) - (p + Len(d)) ELSE 0
    OBVIOUS
  <1> HIDE DEF a, e
  <1> DEFINE f == a \o d
  <1>3. f \in Seq(S) /\ Len(f) = p + Len(d)
    BY <1>1
  <1>4. Overlay(s, p, d) = f \o e
    BY DEF Overlay, a, e, f
  <1> HIDE DEF f
  <1>5. f \o e \in Seq(S) /\ Len(f \o e) = Len(f) + Len(e)
    <2>1. f \in Seq(S) /\ e \in Seq(S)
      BY <1>2, <1>3
    <2> QED
      BY <2>1, ConcatProperties
  <1>6. Len(s) \in Nat /\ Len(d) \in Nat /\ p \in Nat
    OBVIOUS
  <1>7. Len(e) = IF p + Len(d) <= Len(s) THEN Len(s) - (p + Len(d)) ELSE 0
    BY <1>2
  <1>8. Overlay(s, p, d) \in Seq(S) /\ Len(Overlay(s, p, d)) = p + Len(d) + Len(e)
    BY <1>3, <1>4, <1>5
  <1>9. Len(Overlay(s, p, d)) = IF p + Len(d) <= Len(s) THEN Len(s) ELSE p + Len(d)
    <2> DEFINE l == Len(s)
               m == Len(d)
               o == Len(Overlay(s, p, d))
               r == Len(e)
    <2>1. /\ l \in Nat /\ m \in Nat /\ p \in Nat
          /\ r = IF p + m <= l THEN l - (p + m) ELSE 0
          /\ o = p + m + r
      BY <1>6, <1>7, <1>8
    <2> HIDE DEF l, m, o, r
    <2>2. o = IF p + m <= l THEN l ELSE p + m
      BY <2>1
    <2> QED
      BY <2>2 DEF l, m, o
  <1> QED
    BY <1>8, <1>9

-----------------------------------------------------------------------------
(* What a step of one thread leaves true of the others.                    *)

\* The call of a thread that holds the lock goes on.
LEMMA CallStays ==
  ASSUME StreamInv, use' = use, owner' = owner,
         NEW t \in Callers, calls[t].pc \notin {"idle", "lock"},
         NEW c \in CallRecords, calls' = [calls EXCEPT ![t] = c],
         c.op = calls[t].op, c.pc \notin {"idle", "lock"}, OpAt(c.op, c.pc),
         c.pc \in {"flush", "flushwrite"} => use.writable,
         c.op \in {"read", "readinto", "read1"} => c.n > 0,
         RawTypes', StreamOK', PlaceOK(t)', use.writable => SeekOK(t)'
  PROVE  StreamInv'
  <1>1. StreamTypes'
    BY DEF StreamInv, StreamTypes, OneWay
  <1>2. CallOK(t)'
    BY DEF StreamInv, StreamTypes, CallOK
  <1>3. ASSUME NEW u \in Callers \ {t}
        PROVE  CallOK(u)' /\ PlaceOK(u)' /\ (use.writable => SeekOK(u))'
    <2>1. calls'[u] = calls[u]
      BY DEF StreamInv, StreamTypes
    <2>2. calls[u].pc \in {"idle", "lock"}
      BY DEF StreamInv, CallOK
    <2>3. CallOK(u)' /\ PlaceOK(u)'
      BY <2>1, <2>2 DEF StreamInv, CallOK, PlaceOK
    <2>4. use.writable => calls[u].op # "seek"
      BY <2>2 DEF StreamInv, StreamTypes, OneWay, CallOK, OpAt
    <2> QED
      BY <2>1, <2>3, <2>4 DEF SeekOK
  <1> QED
    BY <1>1, <1>2, <1>3 DEF StreamInv

\* It returns.
LEMMA CallEnds ==
  ASSUME StreamInv, use' = use,
         NEW t \in Callers, calls[t].pc \notin {"idle", "lock"},
         NEW op, NEW n, NEW value, Returns(t, op, n, value),
         RawTypes', StreamOK'
  PROVE  StreamInv'
  <1>0. Idle \in CallRecords
    BY DEF Idle, CallRecords, Places, Ops, Reads
  <1>1. StreamTypes'
    BY <1>0 DEF StreamInv, StreamTypes, OneWay, Returns
  <1>2. calls'[t] = Idle
    BY DEF StreamInv, StreamTypes, Returns
  <1>3. CallOK(t)' /\ PlaceOK(t)' /\ SeekOK(t)'
    BY <1>2 DEF CallOK, PlaceOK, SeekOK, Idle, OpAt
  <1>4. ASSUME NEW u \in Callers \ {t}
        PROVE  CallOK(u)' /\ PlaceOK(u)' /\ (use.writable => SeekOK(u))'
    <2>1. calls'[u] = calls[u]
      BY DEF StreamInv, StreamTypes, Returns
    <2>2. calls[u].pc \in {"idle", "lock"}
      BY DEF StreamInv, CallOK
    <2>3. CallOK(u)' /\ PlaceOK(u)'
      BY <2>1, <2>2 DEF StreamInv, CallOK, PlaceOK
    <2>4. use.writable => calls[u].op # "seek"
      BY <2>2 DEF StreamInv, StreamTypes, OneWay, CallOK, OpAt
    <2> QED
      BY <2>1, <2>3, <2>4 DEF SeekOK
  <1> QED
    BY <1>1, <1>3, <1>4 DEF StreamInv

\* A thread that does not hold the lock leaves the marks alone that another
\* one relies on.
LEMMA CallOutside ==
  ASSUME StreamInv, use' = use, file' = file, at' = at, mem' = mem,
         NEW t \in Callers, calls[t].pc = "idle", t \in use.threads,
         NEW c \in CallRecords, calls' = [calls EXCEPT ![t] = c],
         c.pc \in {"idle", "lock"}, OpAt(c.op, c.pc),
         c.pc = "lock" => c.op \in use.methods,
         c.op \in {"read", "readinto", "read1"} => c.n > 0,
         owner' = owner \/ (owner = t /\ owner' = None),
         RawTypes', StreamOK', use.writable => SeekOK(t)',
         b' = [b EXCEPT !.abs_pos = b'.abs_pos, !.pos = b'.pos],
         READAHEAD > 0 \/ b'.pos = b.pos
  PROVE  StreamInv'
  <1>1. StreamTypes'
    BY DEF StreamInv, StreamTypes, OneWay
  <1>2. CallOK(t)' /\ PlaceOK(t)'
    BY DEF StreamInv, StreamTypes, CallOK, PlaceOK, OpAt
  <1>3. ASSUME NEW u \in Callers \ {t}
        PROVE  CallOK(u)' /\ PlaceOK(u)' /\ (use.writable => SeekOK(u))'
    <2>1. calls'[u] = calls[u]
      BY DEF StreamInv, StreamTypes
    <2>2. CallOK(u)'
      BY <2>1 DEF StreamInv, CallOK
    <2>3. PlaceOK(u)'
      <3>1. CASE READAHEAD > 0
        <4>1. b.read_end # -1 /\ b.pos < b.read_end
          BY <3>1 DEF READAHEAD, VALID_READ_BUFFER, StreamInv, StreamTypes, RawTypes, Marks
        <4>2. b'.read_end = b.read_end /\ b'.write_end = b.write_end /\ b'.write_pos = b.write_pos
          BY DEF StreamInv, StreamTypes, RawTypes, Marks
        <4>3. PlaceOK(u)
          BY DEF StreamInv
        <4>4. b.read_end \in Int /\ b.pos \in Int /\ b.write_pos \in Int /\ b.write_end \in Int
          BY DEF StreamInv, StreamTypes, RawTypes, Marks
        <4>5. OpAt(calls[u].op, calls[u].pc)
          BY DEF StreamInv, CallOK
        <4> QED
          BY <2>1, <4>1, <4>2, <4>3, <4>4, <4>5 DEF PlaceOK, OpAt
      <3>2. CASE b'.pos = b.pos
        BY <2>1, <3>2 DEF StreamInv, StreamTypes, RawTypes, Marks, PlaceOK
      <3> QED
        BY <3>1, <3>2
    <2>4. use.writable => calls[u].op # "seek"
      BY DEF StreamInv, StreamTypes, OneWay, CallOK, OpAt
    <2> QED
      BY <2>1, <2>2, <2>3, <2>4 DEF SeekOK
  <1> QED
    BY <1>1, <1>2, <1>3 DEF StreamInv

-----------------------------------------------------------------------------
(* Calls outside the lock.                                                 *)

\* What is in the buffer before the caller.
LEMMA Ahead ==
  ASSUME StreamInv
  PROVE  /\ READAHEAD \in Nat
         /\ use.readable \in BOOLEAN /\ use.writable \in BOOLEAN
         /\ READAHEAD > 0 =>
              use.readable /\ b.read_end # -1 /\ READAHEAD = b.read_end - b.pos
  <1>1. use.readable \in BOOLEAN /\ use.writable \in BOOLEAN
    BY BufferAssumption DEF StreamInv, StreamTypes
  <1> QED
    BY <1>1 DEF READAHEAD, VALID_READ_BUFFER, StreamInv, StreamTypes, RawTypes, Marks,
                StreamOK, ReaderOK

\* The caller moves inside what is in the buffer.
LEMMA MovesInside ==
  ASSUME StreamInv, READAHEAD > 0, UNCHANGED <<use, file, at, mem>>,
         b' = [b EXCEPT !.abs_pos = b'.abs_pos, !.pos = b'.pos],
         b'.pos \in 0..b.read_end,
         \/ b'.abs_pos = b.abs_pos
         \/ use.seekable /\ b'.abs_pos = IF b.abs_pos # -1 THEN b.abs_pos ELSE at
  PROVE  RawTypes' /\ StreamOK'
  <1>1. use.readable /\ ~use.writable /\ b.read_end # -1 /\ READAHEAD = b.read_end - b.pos
    BY Ahead DEF StreamInv, StreamTypes, OneWay
  <1>2. b \in Marks /\ at \in Nat
    BY DEF StreamInv, StreamTypes, RawTypes
  <1>3. b'.pos \in 0..BufferSize /\ b'.abs_pos \in Int
    BY <1>2, BufferAssumption DEF Marks
  <1>4. b' \in Marks /\ b'.read_end = b.read_end /\ b'.write_end = b.write_end
    BY <1>2, <1>3 DEF Marks
  <1>5. RawTypes'
    BY <1>4 DEF StreamInv, StreamTypes, RawTypes
  <1>6. ReaderOK'
    <2>1. ReaderOK
      BY <1>1 DEF StreamInv, StreamOK
    <2>2. b.abs_pos \in {-1, at}
      BY <1>1, <1>2, <2>1 DEF ReaderOK, Marks
    <2>3. b'.abs_pos \in {-1, at} /\ (~use.seekable => b'.abs_pos = -1)
      BY <2>1, <2>2 DEF ReaderOK
    <2> QED
      BY <1>1, <1>4, <2>1, <2>3 DEF ReaderOK
  <1> QED
    BY <1>1, <1>5, <1>6 DEF StreamOK

\* The caller takes k bytes that are in the buffer.
LEMMA Takes ==
  ASSUME StreamInv, NEW k \in Nat, k > 0, k <= READAHEAD, UNCHANGED <<use, file, at, mem>>,
         b' = [b EXCEPT !.pos = @ + k]
  PROVE  /\ RawTypes' /\ StreamOK'
         /\ b' = [b EXCEPT !.abs_pos = b'.abs_pos, !.pos = b'.pos]
  <1>1. b \in Marks /\ READAHEAD \in Nat /\ READAHEAD > 0 /\ READAHEAD = b.read_end - b.pos
    BY Ahead DEF StreamInv, StreamTypes, RawTypes
  <1>2. /\ b' = [b EXCEPT !.abs_pos = b'.abs_pos, !.pos = b'.pos]
        /\ b'.abs_pos = b.abs_pos /\ b'.pos = b.pos + k
    BY <1>1 DEF Marks
  <1>3. b'.pos \in 0..b.read_end
    BY <1>1, <1>2 DEF Marks
  <1> QED
    BY <1>1, <1>2, <1>3, MovesInside

LEMMA IdleRecord == Idle \in CallRecords /\ OpAt(Idle.op, Idle.pc) /\ Idle.pc = "idle" /\ Idle.op = "none"
  BY DEF Idle, CallRecords, Places, Ops, Reads, OpAt

\* A read that what is in the buffer is enough for.
LEMMA FastReadKeeps ==
  ASSUME StreamInv, NEW t \in Callers, calls[t] = Idle, t \in use.threads,
         NEW op, NEW n, NEW k \in Nat, k > 0, k <= READAHEAD, ReadFast(t, op, n, k),
         UNCHANGED <<use, file, at, mem>>
  PROVE  StreamInv'
  <1>1. b' = [b EXCEPT !.pos = @ + k]
    BY DEF ReadFast
  <1>2. RawTypes' /\ StreamOK' /\ b' = [b EXCEPT !.abs_pos = b'.abs_pos, !.pos = b'.pos]
    BY <1>1, Takes
  <1>3. READAHEAD > 0
    BY Ahead
  <1>7. calls' = [calls EXCEPT ![t] = Idle] /\ (owner' = owner \/ (owner = t /\ owner' = None))
    BY DEF ReadFast, Returns
  <1>8. SeekOK(t)'
    BY <1>7, IdleRecord DEF SeekOK, StreamInv, StreamTypes
  <1> QED
    BY <1>2, <1>3, <1>7, <1>8, IdleRecord, CallOutside

\* A call begins and changes nothing, but may take what is in the buffer.
LEMMA BeginKeeps ==
  ASSUME StreamInv, NEW t \in Callers, calls[t] = Idle, t \in use.threads,
         NEW r \in CallRecords, r.op # "none", r.op \in use.methods,
         r.op \in {"read", "readinto", "read1"} => r.n > 0,
         Begin(t, r),
         UNCHANGED <<use, file, at, mem>>,
         b' = b \/ (use.readable /\ b' = [b EXCEPT !.pos = @ + READAHEAD]),
         use.writable => SeekOK(t)'
  PROVE  StreamInv'
  <1> DEFINE c == [r EXCEPT !.pc = "lock"]
  <1>1. /\ c \in CallRecords /\ c.pc = "lock" /\ c.op = r.op /\ c.n = r.n
        /\ OpAt(c.op, c.pc)
    BY DEF CallRecords, Places, OpAt
  <1>2. calls' = [calls EXCEPT ![t] = c] /\ owner' = owner
    BY DEF Begin
  <1> HIDE DEF c
  <1>3. b \in Marks /\ READAHEAD \in Nat
    BY Ahead DEF StreamInv, StreamTypes, RawTypes
  <1>4. CASE b' = b
    <2>1. RawTypes' /\ StreamOK'
      BY <1>4 DEF StreamInv, StreamTypes, RawTypes, StreamOK, ReaderOK, WriterOK
    <2>2. b' = [b EXCEPT !.abs_pos = b'.abs_pos, !.pos = b'.pos]
      BY <1>3, <1>4 DEF Marks
    <2> QED
      BY <1>1, <1>2, <1>4, <2>1, <2>2, IdleRecord, CallOutside
  <1>5. CASE READAHEAD > 0 /\ b' = [b EXCEPT !.pos = @ + READAHEAD]
    <2>2. RawTypes' /\ StreamOK' /\ b' = [b EXCEPT !.abs_pos = b'.abs_pos, !.pos = b'.pos]
      <3> DEFINE k == READAHEAD
      <3>1. k \in Nat /\ k > 0 /\ k <= READAHEAD /\ b' = [b EXCEPT !.pos = @ + k]
        BY <1>3, <1>5
      <3> HIDE DEF k
      <3> QED
        BY <3>1, Takes
    <2> QED
      BY <1>1, <1>2, <1>5, <2>2, IdleRecord, CallOutside
  <1>6. READAHEAD = 0 => [b EXCEPT !.pos = @ + READAHEAD] = b
    BY <1>3 DEF Marks
  <1> QED
    BY <1>3, <1>4, <1>5, <1>6

\* What a writer's users see: what is pending follows what the raw stream has.
LEMMA WriterSees ==
  ASSUME StreamInv, use.writable
  PROVE  /\ InWait \in Nat
         /\ Pending <=> InWait > 0
         /\ Pending => PendingBytes \in Seq(Bytes) /\ Len(PendingBytes) = InWait
         /\ RAW_OFFSET = -InWait
         /\ Logical.position = at + InWait
         /\ Len(Logical.content) = IF at + InWait <= Len(file) THEN Len(file) ELSE at + InWait
  <1>1. /\ ~use.readable /\ WriterOK /\ b \in Marks /\ at \in Nat
        /\ file \in Seq(Bytes) /\ mem \in Seq(Bytes) /\ Len(mem) = BufferSize /\ Len(file) \in Nat
    <2>1. ~use.readable /\ WriterOK
      BY Ahead DEF StreamInv, StreamTypes, StreamOK, OneWay
    <2>2. RawTypes
      BY DEF StreamInv, StreamTypes
    <2> QED
      BY <2>1, <2>2 DEF RawTypes
  <1>2. InWait \in Nat /\ (Pending <=> InWait > 0) /\ (b.write_end # -1 <=> VALID_WRITE_BUFFER)
    BY <1>1 DEF InWait, Pending, VALID_WRITE_BUFFER, WriterOK, Marks
  <1>3. RAW_OFFSET = -InWait
    <2>1. ~VALID_READ_BUFFER
      BY <1>1 DEF VALID_READ_BUFFER
    <2>2. b.write_end # -1 => b.raw_pos - b.pos = -InWait /\ b.raw_pos >= 0
      BY <1>1 DEF WriterOK, Marks, InWait
    <2> QED
      BY <1>2, <2>1, <2>2 DEF RAW_OFFSET, InWait
  <1>4. Logical.position = at + InWait
    BY <1>1, <1>2, <1>3 DEF Logical
  <1>5. CASE Pending
    <2>1. /\ b.write_pos \in Nat /\ InWait = b.write_end - b.write_pos
          /\ b.write_pos + InWait <= Len(mem) /\ b.raw_pos = b.write_pos
      BY <1>1, <1>2, <1>5 DEF InWait, WriterOK, Marks, Pending
    <2>2. PendingBytes \in Seq(Bytes) /\ Len(PendingBytes) = InWait
      BY <1>1, <1>2, <2>1, SliceSeq DEF PendingBytes
    <2>3. Logical.content = Overlay(file, at, PendingBytes)
      BY <1>1, <1>5, <2>1 DEF Logical
    <2>4. at \in 0..Len(file)
      BY <1>1 DEF WriterOK
    <2>5. Len(Overlay(file, at, PendingBytes))
            = IF at + InWait <= Len(file) THEN Len(file) ELSE at + InWait
      BY <1>1, <2>2, <2>4, OverlaySeq
    <2> QED
      BY <1>2, <1>3, <1>4, <2>2, <2>3, <2>5
  <1>6. CASE ~Pending
    <2>1. Logical.content = file /\ InWait = 0 /\ at <= Len(file)
      BY <1>1, <1>2, <1>6 DEF Logical, WriterOK
    <2> QED
      BY <1>1, <1>2, <1>3, <1>4, <1>6, <2>1
  <1> QED
    BY <1>5, <1>6

LEMMA RequestRecord ==
  ASSUME NEW op \in Ops, NEW n \in Nat
  PROVE  /\ Request(op, n) \in CallRecords
         /\ Request(op, n).op = op /\ Request(op, n).n = n
  <1>1. Idle \in CallRecords /\ n \in Int
    BY IdleRecord
  <1>2. [Idle EXCEPT !.op = op, !.n = n, !.asked = n] \in CallRecords
    BY <1>1 DEF CallRecords
  <1>3. /\ [Idle EXCEPT !.op = op, !.n = n, !.asked = n].op = op
        /\ [Idle EXCEPT !.op = op, !.n = n, !.asked = n].n = n
    BY <1>1 DEF CallRecords
  <1> QED
    BY <1>2, <1>3 DEF Request

LEMMA NoSeek ==
  ASSUME StreamInv, NEW t \in Callers, NEW r, Begin(t, r), r \in CallRecords, r.op # "seek"
  PROVE  SeekOK(t)'
  <1>1. calls'[t] = [r EXCEPT !.pc = "lock"]
    BY DEF Begin, StreamInv, StreamTypes
  <1>2. calls'[t].op = r.op
    BY <1>1 DEF CallRecords
  <1> QED
    BY <1>2 DEF SeekOK

LEMMA ReadKeeps ==
  ASSUME StreamInv, NEW t \in Callers, NEW n \in Requests, Read(t, n)
  PROVE  StreamInv'
  <1>1. n \in Nat /\ n > 0 /\ calls[t] = Idle /\ t \in use.threads /\ "read" \in use.methods
    BY BufferAssumption DEF Read, MayCall
  <1>2. CASE n <= READAHEAD
    BY <1>1, <1>2, FastReadKeeps DEF Read
  <1>3. CASE ~(n <= READAHEAD)
    <2> DEFINE r == Request("read", n)
    <2>1. r \in CallRecords /\ r.op = "read" /\ r.n = n
      BY <1>1, RequestRecord DEF Ops, Reads
    <2>2. Begin(t, r) /\ b' = b /\ UNCHANGED <<use, file, at, mem>>
      BY <1>3 DEF Read
    <2> HIDE DEF r
    <2>3. SeekOK(t)'
      BY <2>1, <2>2, NoSeek
    <2> QED
      BY <1>1, <2>1, <2>2, <2>3, BeginKeeps
  <1> QED
    BY <1>2, <1>3

LEMMA Read1Keeps ==
  ASSUME StreamInv, NEW t \in Callers, NEW n \in Requests, Read1(t, n)
  PROVE  StreamInv'
  <1>1. n \in Nat /\ n > 0 /\ calls[t] = Idle /\ t \in use.threads /\ "read1" \in use.methods
    BY BufferAssumption DEF Read1, MayCall
  <1>2. CASE READAHEAD > 0
    <2> DEFINE k == AtMost(READAHEAD, n)
    <2>1. k \in Nat /\ k > 0 /\ k <= READAHEAD
      BY <1>1, <1>2, Ahead DEF AtMost
    <2>2. ReadFast(t, "read1", n, k) /\ UNCHANGED <<use, file, at, mem>>
      BY <1>2 DEF Read1
    <2> HIDE DEF k
    <2> QED
      BY <1>1, <2>1, <2>2, FastReadKeeps
  <1>3. CASE ~(READAHEAD > 0)
    <2> DEFINE r == Request("read1", n)
    <2>1. r \in CallRecords /\ r.op = "read1" /\ r.n = n
      BY <1>1, RequestRecord DEF Ops, Reads
    <2>2. Begin(t, r) /\ b' = b /\ UNCHANGED <<use, file, at, mem>>
      BY <1>3 DEF Read1
    <2> HIDE DEF r
    <2>3. SeekOK(t)'
      BY <2>1, <2>2, NoSeek
    <2> QED
      BY <1>1, <2>1, <2>2, <2>3, BeginKeeps
  <1> QED
    BY <1>2, <1>3

LEMMA ReadIntoKeeps ==
  ASSUME StreamInv, NEW t \in Callers, NEW n \in Requests, ReadInto(t, n)
  PROVE  StreamInv'
  <1>1. n \in Nat /\ n > 0 /\ calls[t] = Idle /\ t \in use.threads /\ "readinto" \in use.methods
    BY BufferAssumption DEF ReadInto, MayCall
  <1>2. CASE READAHEAD >= n
    <2>1. ReadFast(t, "readinto", n, n) /\ n <= READAHEAD
      BY <1>1, <1>2, Ahead DEF ReadInto
    <2> QED
      BY <1>1, <2>1, FastReadKeeps DEF ReadInto
  <1>3. CASE ~(READAHEAD >= n)
    <2> DEFINE q == Request("readinto", n)
               got == Slice(mem, b.pos, READAHEAD)
               r == [q EXCEPT !.n = n - READAHEAD, !.got = got]
    <2>1. q \in CallRecords /\ q.op = "readinto"
      BY <1>1, RequestRecord DEF Ops, Reads
    <2>2. got \in Seq(Bytes)
      <3>1. /\ mem \in Seq(Bytes) /\ Len(mem) = BufferSize /\ b \in Marks
            /\ READAHEAD \in Nat /\ (READAHEAD > 0 => READAHEAD = b.read_end - b.pos)
        BY Ahead DEF StreamInv, StreamTypes, RawTypes
      <3>2. b.pos \in Nat /\ b.pos + READAHEAD <= Len(mem)
        BY <3>1, BufferAssumption DEF Marks
      <3> QED
        BY <3>1, <3>2, SliceSeq
    <2>3. n - READAHEAD \in Int /\ n - READAHEAD > 0
      BY <1>1, <1>3, Ahead
    <2>4. Begin(t, r) /\ b' = [b EXCEPT !.pos = @ + READAHEAD] /\ UNCHANGED <<use, file, at, mem>>
      BY <1>3 DEF ReadInto
    <2> HIDE DEF q, got
    <2>5. r \in CallRecords /\ r.op = "readinto" /\ r.n > 0
      BY <2>1, <2>2, <2>3 DEF CallRecords
    <2> HIDE DEF r
    <2>6. SeekOK(t)'
      BY <2>4, <2>5, NoSeek
    <2>7. use.readable
      BY <1>1, Ahead DEF StreamInv, StreamTypes, OneWay, Reads
    <2> QED
      BY <1>1, <2>4, <2>5, <2>6, <2>7, BeginKeeps
  <1> QED
    BY <1>2, <1>3

LEMMA PlainKeeps ==
  ASSUME StreamInv, NEW t \in Callers, NEW method, Plain(t, method)
  PROVE  StreamInv'
  <1>1. /\ method \in {"readall", "peek", "flush", "truncate"}
        /\ calls[t] = Idle /\ t \in use.threads /\ method \in use.methods
    BY DEF Plain, MayCall
  <1> DEFINE r == Request(method, 0)
  <1>2. r \in CallRecords /\ r.op = method
    BY <1>1, RequestRecord DEF Ops, Reads
  <1>3. Begin(t, r) /\ b' = b /\ UNCHANGED <<use, file, at, mem>>
    BY DEF Plain
  <1> HIDE DEF r
  <1>4. SeekOK(t)'
    BY <1>1, <1>2, <1>3, NoSeek
  <1> QED
    BY <1>1, <1>2, <1>3, <1>4, BeginKeeps

LEMMA WriteKeeps ==
  ASSUME StreamInv, NEW t \in Callers, NEW data \in Payloads, Write(t, data)
  PROVE  StreamInv'
  <1>1. data \in Seq(Bytes) /\ calls[t] = Idle /\ t \in use.threads /\ "write" \in use.methods
    BY BufferAssumption DEF Write, MayCall
  <1> DEFINE r == [Idle EXCEPT !.op = "write", !.data = data]
  <1>2. r \in CallRecords /\ r.op = "write"
    BY <1>1, IdleRecord DEF CallRecords, Ops
  <1>3. Begin(t, r) /\ b' = b /\ UNCHANGED <<use, file, at, mem>>
    BY DEF Write
  <1> HIDE DEF r
  <1>4. SeekOK(t)'
    BY <1>2, <1>3, NoSeek
  <1> QED
    BY <1>1, <1>2, <1>3, <1>4, BeginKeeps

LEMMA TellKeeps ==
  ASSUME StreamInv, NEW t \in Callers, Tell(t)
  PROVE  StreamInv'
  <1>1. /\ calls[t] = Idle /\ t \in use.threads /\ use.seekable
        /\ b' = [b EXCEPT !.abs_pos = at] /\ UNCHANGED <<use, file, at, mem>>
        /\ calls' = [calls EXCEPT ![t] = Idle]
        /\ owner' = owner \/ (owner = t /\ owner' = None)
    BY DEF Tell, MayCall, StreamInv, StreamTypes, OneWay, Returns
  <1>2. b \in Marks /\ at \in Int
    BY DEF StreamInv, StreamTypes, RawTypes
  <1>3. /\ b' \in Marks /\ b'.abs_pos = at /\ b'.pos = b.pos
        /\ b' = [b EXCEPT !.abs_pos = b'.abs_pos, !.pos = b'.pos]
        /\ b'.raw_pos = b.raw_pos /\ b'.read_end = b.read_end
        /\ b'.write_pos = b.write_pos /\ b'.write_end = b.write_end
    BY <1>1, <1>2 DEF Marks
  <1>4. RawTypes'
    BY <1>1, <1>3 DEF StreamInv, StreamTypes, RawTypes
  <1>5. StreamOK'
    BY <1>1, <1>3 DEF StreamInv, StreamOK, ReaderOK, WriterOK
  <1>6. SeekOK(t)'
    BY <1>1, IdleRecord DEF SeekOK, StreamInv, StreamTypes
  <1> QED
    BY <1>1, <1>3, <1>4, <1>5, <1>6, IdleRecord, CallOutside

LEMMA SeekKeeps ==
  ASSUME StreamInv, NEW t \in Callers, NEW target \in -1..MaxSize, NEW whence \in 0..2,
         Seek(t, target, whence)
  PROVE  StreamInv'
  <1> DEFINE current == IF b.abs_pos # -1 THEN b.abs_pos ELSE at
             offset == IF whence = 0 THEN target - (current - RAW_OFFSET) ELSE target
             inside == /\ use.readable /\ whence \in {0, 1} /\ READAHEAD > 0
                       /\ offset \in -b.pos..READAHEAD
             r == [Idle EXCEPT !.op = "seek", !.target = target, !.whence = whence]
  <1>1. /\ calls[t] = Idle /\ t \in use.threads /\ "seek" \in use.methods /\ use.seekable
        /\ UNCHANGED <<use, file, at, mem>>
    BY DEF Seek, MayCall, StreamInv, StreamTypes, OneWay
  <1>2. b \in Marks /\ at \in Int /\ target \in Int
    BY BufferAssumption DEF StreamInv, StreamTypes, RawTypes
  <1>3. CASE inside
    <2>1. /\ b' = [b EXCEPT !.pos = @ + offset, !.abs_pos = current]
          /\ calls' = [calls EXCEPT ![t] = Idle]
          /\ owner' = owner \/ (owner = t /\ owner' = None)
      BY <1>3 DEF Seek, Returns
    <2>2. READAHEAD > 0 /\ READAHEAD = b.read_end - b.pos /\ offset \in -b.pos..READAHEAD
      BY <1>3, Ahead
    <2> HIDE DEF offset
    <2>3. /\ b'.pos = b.pos + offset /\ b'.abs_pos = current
          /\ b' = [b EXCEPT !.abs_pos = b'.abs_pos, !.pos = b'.pos]
      BY <1>2, <2>1 DEF Marks
    <2>4. b'.pos \in 0..b.read_end
      BY <1>2, <2>2, <2>3 DEF Marks
    <2>5. RawTypes' /\ StreamOK'
      BY <1>1, <2>2, <2>3, <2>4, MovesInside
    <2>6. SeekOK(t)'
      BY <2>1, IdleRecord DEF SeekOK, StreamInv, StreamTypes
    <2> QED
      BY <1>1, <2>1, <2>2, <2>3, <2>5, <2>6, IdleRecord, CallOutside
  <1>4. CASE ~inside
    <2>1. Begin(t, r) /\ b' = b
      BY <1>4 DEF Seek
    <2>2. r \in CallRecords /\ r.op = "seek" /\ r.target = target /\ r.whence = whence
      BY <1>2, IdleRecord DEF CallRecords, Ops
    <2>3. calls'[t] = [r EXCEPT !.pc = "lock"]
      BY <2>1 DEF Begin, StreamInv, StreamTypes
    <2> HIDE DEF r
    <2>4. calls'[t].target = target /\ calls'[t].whence = whence
      BY <2>2, <2>3 DEF CallRecords
    <2>5. ASSUME use.writable PROVE SeekOK(t)'
      <3> DEFINE end == Len(Logical.content)
      <3>1. /\ Logical.position = at + InWait /\ InWait \in Nat /\ Len(file) \in Nat
            /\ end = IF at + InWait <= Len(file) THEN Len(file) ELSE at + InWait
        BY <2>5, WriterSees DEF StreamInv, StreamTypes, RawTypes
      <3>2. /\ whence = 0 => target <= end
            /\ whence = 1 => at + InWait + target <= end
            /\ whence = 2 => end + target <= end
        BY <3>1 DEF Seek
      <3> HIDE DEF end
      <3>3. /\ whence = 0 => target <= Len(file) \/ target <= at + InWait
            /\ whence = 1 => target <= 0 \/ at + InWait + target <= Len(file)
            /\ whence = 2 => target <= 0
        BY <1>2, <3>1, <3>2
      <3>4. Len(file)' = Len(file) /\ at' = at /\ InWait' = InWait
        BY <1>1, <2>1 DEF InWait
      <3> QED
        BY <2>4, <3>3, <3>4 DEF SeekOK
    <2> QED
      BY <1>1, <2>1, <2>2, <2>5, BeginKeeps
  <1> QED
    BY <1>3, <1>4

\* A call gets the lock.
LEMMA EnterKeeps ==
  ASSUME StreamInv, NEW t \in Callers, Enter(t)
  PROVE  StreamInv'
  <1> DEFINE op == calls[t].op
             place == CASE op \in {"read", "readall"} -> "generic"
                        [] op = "write" -> "write"
                        [] op = "read1" -> "reset"
                        [] op = "seek" -> IF use.writable THEN "flush" ELSE "rawseek"
                        [] OTHER -> IF use.writable THEN "flush" ELSE "reset"
             c == [calls[t] EXCEPT !.pc = place]
  <1>1. /\ calls[t] \in CallRecords /\ calls[t].pc = "lock" /\ owner = None /\ owner' = t
        /\ UNCHANGED <<use, file, at, mem, b>>
        /\ calls' = [calls EXCEPT ![t] = c]
    BY DEF Enter, StreamInv, StreamTypes
  <1>2. /\ CallOK(t) /\ PlaceOK(t) /\ op # "none" /\ op \in Ops
        /\ use.writable = ~use.readable /\ use.readable \in BOOLEAN
        /\ use.readable => use.methods \cap {"write", "truncate"} = {}
        /\ use.writable => use.methods \cap Reads = {}
        /\ op \in use.methods
    BY <1>1, Ahead DEF StreamInv, StreamTypes, OneWay, CallOK, OpAt, CallRecords
  <1>3. /\ place \in Places \ {"idle", "lock"} /\ OpAt(op, place)
        /\ place \in {"generic", "write", "reset", "flush", "rawseek"}
        /\ place = "rawseek" => use.readable
        /\ place = "flush" => use.writable
    BY <1>2 DEF OpAt, Places, Ops, Reads
  <1> HIDE DEF place
  <1>4. c \in CallRecords /\ c.pc = place /\ c.op = op /\ c.n = calls[t].n
        /\ c.target = calls[t].target /\ c.whence = calls[t].whence
    BY <1>1, <1>3 DEF CallRecords
  <1> HIDE DEF c
  <1>5. StreamTypes' /\ calls'[t] = c
    BY <1>1, <1>4 DEF StreamInv, StreamTypes, OneWay, RawTypes
  <1>6. StreamOK'
    BY <1>1 DEF StreamInv, StreamOK, ReaderOK, WriterOK
  <1>7. CallOK(t)'
    BY <1>1, <1>2, <1>3, <1>4, <1>5 DEF CallOK
  <1>8. PlaceOK(t)'
    <2>1. use.readable => b.write_end = -1
      BY DEF StreamInv, StreamOK, ReaderOK
    <2> QED
      BY <1>1, <1>3, <1>4, <1>5, <2>1 DEF PlaceOK
  <1>9. use.writable => SeekOK(t)'
    <2>1. use.writable => SeekOK(t)
      BY DEF StreamInv
    <2> QED
      BY <1>1, <1>4, <1>5, <2>1 DEF SeekOK, InWait
  <1>10. ASSUME NEW u \in Callers \ {t}
         PROVE  CallOK(u)' /\ PlaceOK(u)' /\ (use.writable => SeekOK(u))'
    <2>1. calls'[u] = calls[u] /\ CallOK(u) /\ PlaceOK(u) /\ (use.writable => SeekOK(u))
      BY <1>1 DEF StreamInv, StreamTypes
    <2>2. calls[u].pc \in {"idle", "lock"}
      BY <1>1, <2>1, BufferAssumption DEF CallOK
    <2> QED
      BY <1>1, <2>1, <2>2 DEF CallOK, PlaceOK, SeekOK, InWait
  <1> QED
    BY <1>1, <1>5, <1>6, <1>7, <1>8, <1>9, <1>10 DEF StreamInv

-----------------------------------------------------------------------------
(* Under the lock.                                                         *)

\* What is known of a call that holds the lock.
LEMMA Holding ==
  ASSUME StreamInv, NEW t \in Callers, calls[t].pc \notin {"idle", "lock"}
  PROVE  /\ owner = t /\ calls[t] \in CallRecords /\ CallOK(t) /\ PlaceOK(t)
         /\ OpAt(calls[t].op, calls[t].pc)
         /\ use.readable \in BOOLEAN /\ use.writable = ~use.readable
         /\ calls[t].op \in Reads => use.readable
         /\ calls[t].op \in {"write", "truncate"} => use.writable
         /\ use.writable => SeekOK(t)
         /\ b \in Marks /\ at \in Nat /\ file \in Seq(Bytes) /\ Len(file) \in Nat
         /\ mem \in Seq(Bytes) /\ Len(mem) = BufferSize
  <1>1. CallOK(t) /\ PlaceOK(t) /\ (use.writable => SeekOK(t)) /\ OneWay
    BY DEF StreamInv, StreamTypes
  <1>2. calls[t].op \in use.methods /\ OpAt(calls[t].op, calls[t].pc) /\ owner = t
    BY <1>1 DEF CallOK
  <1>3. /\ calls[t].op \in Reads => use.readable
        /\ calls[t].op \in {"write", "truncate"} => use.writable
        /\ use.writable = ~use.readable /\ use.readable \in BOOLEAN
    BY <1>1, <1>2, Ahead DEF OneWay
  <1>4. /\ calls[t] \in CallRecords
        /\ b \in Marks /\ at \in Nat /\ file \in Seq(Bytes) /\ Len(file) \in Nat
        /\ mem \in Seq(Bytes) /\ Len(mem) = BufferSize
    BY DEF StreamInv, StreamTypes, RawTypes
  <1> QED
    BY <1>1, <1>2, <1>3, <1>4

\* The same call at another place.
LEMMA GoMoves ==
  ASSUME StreamInv, NEW t \in Callers, calls[t].pc \notin {"idle", "lock"},
         NEW pc \in Places, Go(t, pc)
  PROVE  /\ UNCHANGED <<use, owner>>
         /\ calls' = [calls EXCEPT ![t] = [calls[t] EXCEPT !.pc = pc]]
         /\ [calls[t] EXCEPT !.pc = pc] \in CallRecords
         /\ calls'[t].pc = pc /\ calls'[t].op = calls[t].op /\ calls'[t].n = calls[t].n
         /\ calls'[t].target = calls[t].target /\ calls'[t].whence = calls[t].whence
  <1>1. calls[t] \in CallRecords /\ calls \in [Callers -> CallRecords]
    BY DEF StreamInv, StreamTypes
  <1>2. calls' = [calls EXCEPT ![t] = [calls[t] EXCEPT !.pc = pc]] /\ UNCHANGED <<use, owner>>
    BY DEF Go
  <1>3. calls'[t] = [calls[t] EXCEPT !.pc = pc]
    BY <1>1, <1>2
  <1>4. [calls[t] EXCEPT !.pc = pc] \in CallRecords
    BY <1>1 DEF CallRecords
  <1>5. /\ calls'[t].pc = pc /\ calls'[t].op = calls[t].op /\ calls'[t].n = calls[t].n
        /\ calls'[t].target = calls[t].target /\ calls'[t].whence = calls[t].whence
    BY <1>1, <1>3 DEF CallRecords
  <1> QED
    BY <1>2, <1>4, <1>5

LEMMA GoKeeps ==
  ASSUME StreamInv, NEW t \in Callers, calls[t].pc \notin {"idle", "lock"},
         NEW pc \in Places \ {"idle", "lock"}, Go(t, pc), OpAt(calls[t].op, pc),
         pc \in {"flush", "flushwrite"} => use.writable,
         RawTypes', StreamOK', PlaceOK(t)', use.writable => SeekOK(t)'
  PROVE  StreamInv'
  <1> DEFINE c == [calls[t] EXCEPT !.pc = pc]
  <1>1. /\ UNCHANGED <<use, owner>> /\ c \in CallRecords /\ calls' = [calls EXCEPT ![t] = c]
        /\ calls'[t].pc = pc /\ calls'[t].op = calls[t].op /\ calls'[t].n = calls[t].n
    BY GoMoves
  <1>2. c.pc = pc /\ c.op = calls[t].op /\ c.n = calls[t].n
    BY <1>1 DEF StreamInv, StreamTypes
  <1>3. c.op \in {"read", "readinto", "read1"} => c.n > 0
    BY <1>2, Holding DEF CallOK
  <1> HIDE DEF c
  <1> QED
    BY <1>1, <1>2, <1>3, CallStays

\* The marks of a writer.
LEMMA Writes ==
  ASSUME StreamInv, use.writable
  PROVE  /\ WriterOK /\ ~use.readable /\ use.readable \in BOOLEAN
         /\ VALID_WRITE_BUFFER <=> b.write_end # -1
         /\ ~VALID_READ_BUFFER
         /\ Pending <=> b.write_end # -1 /\ b.write_pos # b.write_end
  BY Ahead DEF StreamInv, StreamTypes, OneWay, StreamOK, VALID_READ_BUFFER,
               VALID_WRITE_BUFFER, Pending

\* Nothing to rewind: the raw stream is where the pending bytes belong.
LEMMA FlushSeekKeeps ==
  ASSUME StreamInv, NEW t \in Callers, FlushSeek(t)
  PROVE  StreamInv'
  <1>1. calls[t].pc = "flush" /\ Pending /\ Go(t, "flushwrite") /\ UNCHANGED <<file, mem>>
    BY DEF FlushSeek
  <1>2. use.writable /\ b \in Marks
    BY <1>1, Holding DEF CallOK
  <1>3. RAW_OFFSET + b.pos - b.write_pos = 0
    BY <1>1, <1>2, WriterSees, Writes DEF InWait, WriterOK, Marks
  <1>4. UNCHANGED <<at, b>>
    BY <1>3 DEF FlushSeek
  <1>5. /\ calls'[t].pc = "flushwrite" /\ calls'[t].op = calls[t].op /\ use' = use
        /\ calls'[t].target = calls[t].target /\ calls'[t].whence = calls[t].whence
    BY <1>1, GoMoves DEF Places
  <1>6. RawTypes' /\ StreamOK'
    BY <1>1, <1>4, <1>5 DEF StreamInv, StreamTypes, RawTypes, StreamOK, ReaderOK, WriterOK
  <1>7. PlaceOK(t)'
    BY <1>1, <1>2, <1>4, <1>5, Writes DEF PlaceOK, WriterOK, Marks
  <1>8. SeekOK(t)'
    BY <1>1, <1>2, <1>4, <1>5, Holding DEF SeekOK, InWait
  <1>9. OpAt(calls[t].op, "flushwrite")
    BY <1>1, Holding DEF OpAt
  <1> QED
    BY <1>1, <1>2, <1>6, <1>7, <1>8, <1>9, GoKeeps DEF Places

\* Where AfterFlush leads a writer.
LEMMA AfterFlushGoes ==
  ASSUME StreamInv, NEW t \in Callers, calls[t].pc \in {"flush", "flushwrite"}
  PROVE  /\ AfterFlush(t) \in {"direct", "rawseek", "reset"}
         /\ OpAt(calls[t].op, AfterFlush(t))
         /\ AfterFlush(t) = "direct" <=> calls[t].op = "write"
         /\ AfterFlush(t) = "rawseek" <=> calls[t].op = "seek"
  <1>1. use.writable /\ ~use.readable /\ calls[t].op \in {"write", "flush", "seek", "truncate"}
    BY Holding, Writes DEF CallOK, OpAt
  <1> QED
    BY <1>1 DEF AfterFlush, OpAt, Reads

LEMMA NothingToFlushKeeps ==
  ASSUME StreamInv, NEW t \in Callers, NothingToFlush(t)
  PROVE  StreamInv'
  <1> DEFINE pc == AfterFlush(t)
  <1>1. /\ calls[t].pc = "flush" /\ ~Pending /\ Go(t, pc) /\ UNCHANGED <<file, at, mem>>
        /\ b' = IF calls[t].op = "seek" THEN WriteReset(b) ELSE b
    BY DEF NothingToFlush
  <1>2. use.writable /\ ~use.readable /\ b \in Marks /\ WriterOK /\ b.write_end \in {-1, b.write_pos}
    BY <1>1, Holding, Writes DEF CallOK
  <1>3. /\ pc \in {"direct", "rawseek", "reset"} /\ OpAt(calls[t].op, pc)
        /\ pc = "rawseek" <=> calls[t].op = "seek"
    BY <1>1, AfterFlushGoes
  <1> HIDE DEF pc
  <1>4. /\ calls'[t].pc = pc /\ calls'[t].op = calls[t].op /\ use' = use
        /\ calls'[t].target = calls[t].target /\ calls'[t].whence = calls[t].whence
    BY <1>1, <1>3, GoMoves DEF Places
  <1>5. /\ b' \in Marks /\ b'.read_end = b.read_end /\ b'.write_pos = 0
        /\ b'.write_end = IF calls[t].op = "seek" THEN -1 ELSE b.write_end
        /\ b'.pos = b.pos /\ b'.raw_pos = b.raw_pos /\ b.write_pos = 0
    BY <1>1, <1>2, BufferAssumption DEF WriteReset, WriterOK, Marks
  <1>6. RawTypes'
    BY <1>1, <1>5 DEF StreamInv, StreamTypes, RawTypes
  <1>7. StreamOK'
    BY <1>1, <1>2, <1>4, <1>5 DEF StreamOK, WriterOK
  <1>8. PlaceOK(t)'
    BY <1>2, <1>3, <1>4, <1>5 DEF PlaceOK
  <1>9. SeekOK(t)'
    <2>1. InWait' = InWait
      BY <1>1, <1>2, <1>5 DEF InWait, Marks
    <2> QED
      BY <1>1, <1>2, <1>4, <2>1, Holding DEF SeekOK
  <1> QED
    BY <1>1, <1>3, <1>6, <1>7, <1>8, <1>9, GoKeeps DEF Places

\* What one raw write of k pending or given bytes does to the file.
LEMMA RawWriteGrows ==
  ASSUME file \in Seq(Bytes), at \in 0..Len(file), Len(file) \in Nat,
         NEW data \in Seq(Bytes), NEW k \in 1..Len(data), RawWrite(data, k)
  PROVE  /\ file' \in Seq(Bytes) /\ at' = at + k /\ at' \in Nat
         /\ Len(file') = IF at + k <= Len(file) THEN Len(file) ELSE at + k
         /\ Len(file') \in Nat /\ at' <= Len(file')
  <1> DEFINE d == SubSeq(data, 1, k)
  <1>1. d \in Seq(Bytes) /\ Len(d) = k /\ k \in Nat
    BY PrefixSeq
  <1>2. file' = Overlay(file, at, d) /\ at' = at + k
    BY DEF RawWrite
  <1> HIDE DEF d
  <1>3. /\ Overlay(file, at, d) \in Seq(Bytes)
        /\ Len(Overlay(file, at, d)) = IF at + k <= Len(file) THEN Len(file) ELSE at + k
    BY <1>1, OverlaySeq
  <1> QED
    BY <1>1, <1>2, <1>3

\* Tracked changes no mark but abs_pos.
LEMMA TrackedMarks ==
  ASSUME b \in Marks, NEW k \in Nat
  PROVE  /\ Tracked(k) \in Marks
         /\ Tracked(k).abs_pos = IF b.abs_pos # -1 THEN b.abs_pos + k ELSE -1
         /\ Tracked(k).pos = b.pos /\ Tracked(k).raw_pos = b.raw_pos
         /\ Tracked(k).read_end = b.read_end
         /\ Tracked(k).write_pos = b.write_pos /\ Tracked(k).write_end = b.write_end
  BY DEF Tracked, Marks

LEMMA ResetMarks ==
  ASSUME NEW m \in Marks
  PROVE  /\ WriteReset(m) \in Marks
         /\ WriteReset(m).write_pos = 0 /\ WriteReset(m).write_end = -1
         /\ WriteReset(m).pos = m.pos /\ WriteReset(m).raw_pos = m.raw_pos
         /\ WriteReset(m).read_end = m.read_end /\ WriteReset(m).abs_pos = m.abs_pos
  <1>1. 0 \in 0..BufferSize /\ -1 \in -1..BufferSize
    BY BufferAssumption
  <1>2. WriteReset(m) = [m EXCEPT !.write_pos = 0, !.write_end = -1]
    BY DEF WriteReset
  <1> QED
    BY <1>1, <1>2 DEF Marks

\* What is pending moves into the file, and the file gets no shorter.
LEMMA SeekStays ==
  ASSUME NEW t \in Callers, SeekOK(t), calls[t].target \in Int,
         calls'[t].op = calls[t].op, calls'[t].target = calls[t].target,
         calls'[t].whence = calls[t].whence,
         at + InWait \in Nat, at' + InWait' = at + InWait,
         Len(file) \in Nat, Len(file') \in Nat, Len(file') >= Len(file)
  PROVE  SeekOK(t)'
  <1> DEFINE e == at + InWait
             f == Len(file')
             g == Len(file)
             c == calls[t]
  <1>1. /\ c.target \in Int /\ e \in Nat /\ f \in Nat /\ g \in Nat /\ f >= g
        /\ c.op = "seek" => /\ c.whence = 0 => c.target <= g \/ c.target <= e
                            /\ c.whence = 1 => c.target <= 0 \/ e + c.target <= g
                            /\ c.whence = 2 => c.target <= 0
    BY DEF SeekOK
  <1>2. SeekOK(t)' <=>
          (c.op = "seek" => /\ c.whence = 0 => c.target <= f \/ c.target <= e
                            /\ c.whence = 1 => c.target <= 0 \/ e + c.target <= f
                            /\ c.whence = 2 => c.target <= 0)
    BY DEF SeekOK
  <1> HIDE DEF c, e, f, g
  <1> QED
    BY <1>1, <1>2

LEMMA FlushWriteKeeps ==
  ASSUME StreamInv, NEW t \in Callers, FlushWrite(t)
  PROVE  StreamInv'
  <1>1. calls[t].pc = "flushwrite" /\ mem' = mem
    BY DEF FlushWrite
  <1> DEFINE c(k) == [Tracked(k) EXCEPT !.write_pos = @ + k, !.raw_pos = b.write_pos + k]
             last(k) == k = Len(PendingBytes)
  <1>2. PICK k \in 1..Len(PendingBytes) :
          /\ RawWrite(PendingBytes, k)
          /\ b' = IF last(k) THEN WriteReset(c(k)) ELSE c(k)
          /\ Go(t, IF last(k) THEN AfterFlush(t) ELSE "flushwrite")
    BY DEF FlushWrite
  <1>3. /\ use.writable /\ ~use.readable /\ b \in Marks /\ WriterOK
        /\ file \in Seq(Bytes) /\ Len(file) \in Nat /\ at \in Nat /\ SeekOK(t)
        /\ b.write_end # -1 /\ b.write_pos < b.write_end
    BY <1>1, Holding, Writes DEF CallOK, PlaceOK
  <1>4. /\ InWait = b.write_end - b.write_pos /\ InWait > 0 /\ InWait \in Nat
        /\ PendingBytes \in Seq(Bytes) /\ Len(PendingBytes) = InWait
    BY <1>3, WriterSees DEF InWait, Marks
  <1>5. k \in Nat /\ k > 0 /\ k <= InWait /\ (last(k) <=> k = InWait)
    BY <1>4
  <1>6. /\ file' \in Seq(Bytes) /\ at' = at + k /\ at' \in Nat /\ at' <= Len(file') /\ Len(file') \in Nat
        /\ Len(file') = IF at + k <= Len(file) THEN Len(file) ELSE at + k
    <2>1. at \in 0..Len(file)
      BY <1>3 DEF WriterOK
    <2> QED
      BY <1>2, <1>3, <1>4, <2>1, RawWriteGrows
  <1>7. /\ c(k).pos = b.pos /\ c(k).raw_pos = b.write_pos + k /\ c(k).read_end = b.read_end
        /\ c(k).write_pos = b.write_pos + k /\ c(k).write_end = b.write_end
        /\ c(k) \in Marks
    <2>1. b.write_pos + k \in 0..BufferSize /\ b.write_pos + k \in Int
      BY <1>3, <1>4, <1>5, BufferAssumption DEF Marks
    <2> QED
      BY <1>3, <1>5, <2>1, TrackedMarks DEF Marks
  <1> DEFINE pc == IF last(k) THEN AfterFlush(t) ELSE "flushwrite"
  <1>8. /\ pc \in {"direct", "rawseek", "reset", "flushwrite"} /\ OpAt(calls[t].op, pc)
        /\ pc = "flushwrite" <=> ~last(k)
    <2>1. OpAt(calls[t].op, "flushwrite")
      BY <1>1, Holding
    <2> QED
      BY <1>1, <2>1, AfterFlushGoes
  <1>9. Go(t, pc)
    BY <1>2
  <1> HIDE DEF pc
  <1>10. /\ calls'[t].pc = pc /\ calls'[t].op = calls[t].op /\ use' = use
         /\ calls'[t].target = calls[t].target /\ calls'[t].whence = calls[t].whence
    BY <1>1, <1>8, <1>9, GoMoves DEF Places
  <1>13. calls[t].target \in Int /\ at + InWait \in Nat /\ Len(file') >= Len(file)
    <2>1. calls[t].target \in Int
      BY DEF StreamInv, StreamTypes, CallRecords
    <2>2. Len(file') >= Len(file)
      BY <1>3, <1>5, <1>6
    <2> QED
      BY <1>3, <1>4, <2>1, <2>2
  <1>11. CASE last(k)
    <2>1. /\ b' \in Marks /\ b'.pos = b.pos /\ b'.read_end = b.read_end /\ b'.write_pos = 0
          /\ b'.write_end = -1
      <3>1. b' = WriteReset(c(k))
        BY <1>2, <1>11
      <3> HIDE DEF c
      <3> QED
        BY <1>7, <3>1, ResetMarks
    <2>2. RawTypes'
      BY <1>1, <1>6, <2>1 DEF StreamInv, StreamTypes, RawTypes
    <2>3. StreamOK'
      BY <1>3, <1>6, <1>10, <2>1 DEF StreamOK, WriterOK
    <2>4. PlaceOK(t)'
      BY <1>8, <1>10, <1>11, <2>1 DEF PlaceOK
    <2>5. SeekOK(t)'
      <3>1. InWait' = 0 /\ at' + InWait' = at + InWait
        BY <1>4, <1>5, <1>6, <1>11, <2>1 DEF InWait
      <3> QED
        BY <1>3, <1>4, <1>6, <1>10, <1>13, <3>1, SeekStays
    <2> QED
      BY <1>1, <1>8, <1>9, <1>11, <2>2, <2>3, <2>4, <2>5, GoKeeps DEF Places
  <1>12. CASE ~last(k)
    <2>1. b' = c(k)
      BY <1>2, <1>12
    <2> HIDE DEF c
    <2>2. RawTypes'
      BY <1>1, <1>6, <1>7, <2>1 DEF StreamInv, StreamTypes, RawTypes
    <2>3. b'.write_pos < b'.write_end /\ b'.write_end # -1
      BY <1>3, <1>4, <1>5, <1>7, <1>12, <2>1 DEF Marks
    <2>4. StreamOK'
      BY <1>3, <1>6, <1>7, <1>10, <2>1, <2>3 DEF StreamOK, WriterOK, Marks
    <2>5. PlaceOK(t)'
      BY <1>8, <1>10, <1>12, <2>3 DEF PlaceOK
    <2>6. SeekOK(t)'
      <3>1. InWait' = InWait - k
        BY <1>3, <1>4, <1>5, <1>7, <2>1, <2>3 DEF InWait, Marks
      <3>2. at' + InWait' = at + InWait
        BY <1>3, <1>4, <1>5, <1>6, <3>1
      <3> QED
        BY <1>3, <1>4, <1>6, <1>10, <1>13, <3>2, SeekStays
    <2> QED
      BY <1>1, <1>3, <1>8, <1>9, <2>2, <2>4, <2>5, <2>6, GoKeeps DEF Places
  <1> QED
    BY <1>11, <1>12

\* A call that returns and leaves the stream as it is.
LEMMA QuietEnd ==
  ASSUME StreamInv, NEW t \in Callers, calls[t].pc \notin {"idle", "lock"},
         NEW op, NEW n, NEW value, Returns(t, op, n, value),
         UNCHANGED <<use, file, at, mem, b>>
  PROVE  StreamInv'
  <1>1. RawTypes' /\ StreamOK'
    BY DEF StreamInv, StreamTypes, RawTypes, StreamOK, ReaderOK, WriterOK
  <1> QED
    BY <1>1, CallEnds

LEMMA FlushFailsKeeps ==
  ASSUME StreamInv, NEW t \in Callers, FlushFails(t)
  PROVE  StreamInv'
  <1>1. calls[t].pc = "flushwrite" /\ UNCHANGED <<use, file, at, mem, b>>
    BY DEF FlushFails
  <1>2. PICK op, n, value : Returns(t, op, n, value)
    BY DEF FlushFails, Raise
  <1> QED
    BY <1>1, <1>2, QuietEnd

\* A stream of one direction has no read buffer to rewind behind a flush.
LEMMA RewindKeeps ==
  ASSUME StreamInv, NEW t \in Callers, Rewind(t)
  PROVE  FALSE
  BY DEF Rewind, StreamInv, StreamTypes, CallRecords, Places

-----------------------------------------------------------------------------
(* Reading.                                                                *)

\* The marks of a reader.
LEMMA ReadsOnly ==
  ASSUME StreamInv, use.readable
  PROVE  /\ ReaderOK /\ ~use.writable
         /\ VALID_READ_BUFFER <=> b.read_end # -1
         /\ RawTypes /\ b \in Marks
         /\ READAHEAD = IF b.read_end # -1 THEN b.read_end - b.pos ELSE 0
  BY Ahead DEF StreamInv, StreamTypes, OneWay, StreamOK, VALID_READ_BUFFER, READAHEAD, RawTypes

\* A reader stays sound when its buffer is emptied.
LEMMA Empties ==
  ASSUME StreamInv, use.readable, UNCHANGED <<use, file, at, mem>>,
         b'.pos \in 0..BufferSize, b'.raw_pos \in Int, b'.read_end \in {-1, 0},
         b'.read_end = 0 => b'.pos = 0,
         b' = [b EXCEPT !.pos = b'.pos, !.raw_pos = b'.raw_pos, !.read_end = b'.read_end]
  PROVE  RawTypes' /\ StreamOK'
  <1>1. ReaderOK /\ ~use.writable /\ RawTypes /\ b \in Marks
    BY ReadsOnly
  <1>2. b'.read_end \in -1..BufferSize
    BY BufferAssumption
  <1>3. /\ b' \in Marks /\ b'.write_end = b.write_end /\ b'.abs_pos = b.abs_pos
    BY <1>1, <1>2 DEF Marks
  <1>4. RawTypes'
    BY <1>1, <1>3 DEF RawTypes
  <1>5. ReaderOK'
    BY <1>1, <1>3 DEF ReaderOK, RawTypes, Marks
  <1> QED
    BY <1>1, <1>4, <1>5 DEF StreamOK

LEMMA ReadGenericKeeps ==
  ASSUME StreamInv, NEW t \in Callers, ReadGeneric(t)
  PROVE  StreamInv'
  <1>1. calls[t].pc = "generic" /\ UNCHANGED <<file, at, mem>>
    BY DEF ReadGeneric
  <1>2. /\ use.readable /\ ~use.writable /\ b \in Marks /\ calls[t] \in CallRecords
        /\ calls[t].op \in {"read", "readall"} /\ CallOK(t)
        /\ mem \in Seq(Bytes) /\ Len(mem) = BufferSize
    BY <1>1, Holding DEF OpAt, Reads
  <1>3. READAHEAD \in Nat /\ (READAHEAD > 0 => READAHEAD = b.read_end - b.pos)
    BY Ahead
  <1>4. CASE calls[t].op = "read" /\ calls[t].n <= READAHEAD
    <2> DEFINE k == calls[t].n
    <2>1. k \in Nat /\ k > 0 /\ k <= READAHEAD
      BY <1>2, <1>4 DEF CallOK, CallRecords
    <2>2. /\ Returns(t, "read", calls[t].asked, Slice(mem, b.pos, k)) /\ use' = use
          /\ b' = [b EXCEPT !.pos = @ + k]
      BY <1>4 DEF ReadGeneric, ReadFast
    <2> HIDE DEF k
    <2>3. RawTypes' /\ StreamOK'
      BY <1>1, <2>1, <2>2, Takes
    <2> QED
      BY <1>1, <2>2, <2>3, CallEnds
  <1>5. CASE ~(calls[t].op = "read" /\ calls[t].n <= READAHEAD)
    <2> DEFINE got == Slice(mem, b.pos, READAHEAD)
               n == calls[t].n - READAHEAD
               c == [calls[t] EXCEPT !.pc = "reset", !.got = got, !.n = n]
    <2>1. /\ UNCHANGED <<use, owner>> /\ b' = [b EXCEPT !.pos = @ + READAHEAD]
          /\ calls' = [calls EXCEPT ![t] = c]
      BY <1>2, <1>5 DEF ReadGeneric
    <2>2. got \in Seq(Bytes)
      <3>1. b.pos \in Nat /\ b.pos + READAHEAD <= Len(mem)
        BY <1>2, <1>3, BufferAssumption DEF Marks
      <3> QED
        BY <1>2, <1>3, <3>1, SliceSeq
    <2>3. n \in Int /\ (calls[t].op = "read" => n > 0)
      BY <1>2, <1>3, <1>5 DEF CallRecords
    <2> HIDE DEF got, n
    <2>4. c \in CallRecords /\ c.pc = "reset" /\ c.op = calls[t].op /\ c.n = n
      BY <1>2, <2>2, <2>3 DEF CallRecords, Places
    <2> HIDE DEF c
    <2>5. OpAt(c.op, c.pc)
      BY <1>2, <2>4 DEF OpAt, Reads
    <2>6. RawTypes' /\ StreamOK'
      <3>1. CASE READAHEAD = 0
        <4>1. b' = b
          BY <1>2, <2>1, <3>1 DEF Marks
        <4> QED
          BY <1>1, <2>1, <4>1 DEF StreamInv, StreamTypes, RawTypes, StreamOK, ReaderOK, WriterOK
      <3>2. CASE READAHEAD > 0
        <4> DEFINE k == READAHEAD
        <4>1. k \in Nat /\ k > 0 /\ k <= READAHEAD /\ b' = [b EXCEPT !.pos = @ + k]
          BY <1>3, <2>1, <3>2
        <4> HIDE DEF k
        <4> QED
          BY <1>1, <2>1, <4>1, Takes
      <3> QED
        BY <1>3, <3>1, <3>2
    <2>7. calls'[t] = c
      BY <2>1 DEF StreamInv, StreamTypes
    <2>8. PlaceOK(t)'
      BY <2>4, <2>7 DEF PlaceOK
    <2> QED
      BY <1>1, <1>2, <2>1, <2>3, <2>4, <2>5, <2>6, <2>8, CallStays
  <1> QED
    BY <1>4, <1>5

\* A call of a reader goes on at pc, with its buffer emptied.
LEMMA ReaderGoes ==
  ASSUME StreamInv, NEW t \in Callers, calls[t].pc \notin {"idle", "lock"}, use.readable,
         NEW pc \in {"fill", "readall", "read1", "directread"}, Go(t, pc), OpAt(calls[t].op, pc),
         UNCHANGED <<file, at, mem>>,
         b'.pos \in 0..BufferSize, b'.raw_pos \in Int, b'.read_end \in {-1, 0},
         b'.read_end = 0 => b'.pos = 0 /\ pc = "fill" /\ calls[t].op = "read",
         pc = "fill" /\ calls[t].op # "peek" => b'.pos = 0,
         pc = "directread" /\ calls[t].op = "readinto" => b'.pos = 0,
         b' = [b EXCEPT !.pos = b'.pos, !.raw_pos = b'.raw_pos, !.read_end = b'.read_end]
  PROVE  StreamInv'
  <1>1. use' = use /\ calls'[t].pc = pc /\ calls'[t].op = calls[t].op
    BY GoMoves DEF Places
  <1>2. ReaderOK /\ ~use.writable /\ RawTypes /\ b \in Marks
    BY ReadsOnly
  <1>3. RawTypes' /\ StreamOK'
    BY <1>1, Empties
  <1>4. PlaceOK(t)'
    BY <1>1 DEF PlaceOK
  <1>5. pc \in Places \ {"idle", "lock"}
    BY DEF Places
  <1> QED
    BY <1>2, <1>3, <1>4, <1>5, GoKeeps

LEMMA ResetKeeps ==
  ASSUME StreamInv, NEW t \in Callers, Reset(t)
  PROVE  StreamInv'
  <1> DEFINE op == calls[t].op
             blocks == MINUS_LAST_BLOCK(calls[t].n)
  <1>1. /\ calls[t].pc = "reset" /\ UNCHANGED <<file, at, mem>>
        /\ calls[t].pc \notin {"idle", "lock"}
    BY DEF Reset
  <1>2. /\ b \in Marks /\ op \in Reads \cup {"flush", "truncate"} /\ (op \in Reads => use.readable)
        /\ (op = "truncate" => use.writable) /\ 0 \in 0..BufferSize
    BY <1>1, Holding, BufferAssumption DEF OpAt
  <1>3. \/ \/ op = "peek" /\ Returns(t, "peek", 0, Slice(mem, b.pos, READAHEAD)) /\ UNCHANGED <<use, b>>
           \/ op = "flush" /\ Returns(t, "flush", 0, <<>>) /\ UNCHANGED <<use, b>>
        \/ /\ op = "peek" /\ Go(t, "fill") /\ b' = [b EXCEPT !.read_end = -1]
        \/ /\ op \in {"read1", "readall"} /\ Go(t, op) /\ b' = [b EXCEPT !.read_end = -1]
        \/ /\ op = "readinto" /\ Go(t, IF calls[t].n > BufferSize THEN "directread" ELSE "fill")
           /\ b' = [b EXCEPT !.read_end = -1, !.pos = 0]
        \/ /\ op = "read" /\ Go(t, "directread") /\ b' = [b EXCEPT !.read_end = -1]
        \/ /\ op = "read" /\ Go(t, "fill")
           /\ b' = [b EXCEPT !.read_end = 0, !.pos = 0, !.raw_pos = 0]
        \/ op = "truncate" /\ Go(t, "truncate") /\ UNCHANGED b
    BY DEF Reset
  <1> HIDE DEF op
  <1>4. CASE op \in {"peek", "flush"} /\ UNCHANGED <<use, b>> /\ \E m, value : Returns(t, op, m, value)
    BY <1>1, <1>4, QuietEnd
  <1>5. ASSUME op \in Reads, b' = [b EXCEPT !.read_end = -1],
               NEW pc \in {"fill", "readall", "read1", "directread"}, Go(t, pc),
               OpAt(op, pc), pc = "fill" => op = "peek", pc = "directread" => op = "read"
        PROVE  StreamInv'
    <2>1. /\ b'.pos = b.pos /\ b'.raw_pos = b.raw_pos /\ b'.read_end = -1
          /\ b'.pos \in 0..BufferSize /\ b'.raw_pos \in Int
          /\ b' = [b EXCEPT !.pos = b'.pos, !.raw_pos = b'.raw_pos, !.read_end = b'.read_end]
      BY <1>2, <1>5 DEF Marks
    <2> QED
      BY <1>1, <1>2, <1>5, <2>1, ReaderGoes DEF op
  <1>6. CASE op = "readinto" /\ b' = [b EXCEPT !.read_end = -1, !.pos = 0]
             /\ Go(t, IF calls[t].n > BufferSize THEN "directread" ELSE "fill")
    <2> DEFINE pc == IF calls[t].n > BufferSize THEN "directread" ELSE "fill"
    <2>1. /\ b'.pos = 0 /\ b'.raw_pos = b.raw_pos /\ b'.read_end = -1 /\ b'.raw_pos \in Int
          /\ b' = [b EXCEPT !.pos = b'.pos, !.raw_pos = b'.raw_pos, !.read_end = b'.read_end]
      BY <1>2, <1>6 DEF Marks
    <2>2. pc \in {"fill", "directread"} /\ Go(t, pc) /\ OpAt(op, pc)
      BY <1>6 DEF OpAt
    <2> HIDE DEF pc
    <2> QED
      BY <1>1, <1>2, <1>6, <2>1, <2>2, ReaderGoes DEF op, Reads
  <1>7. CASE op = "read" /\ b' = [b EXCEPT !.read_end = 0, !.pos = 0, !.raw_pos = 0] /\ Go(t, "fill")
    <2>1. /\ b'.pos = 0 /\ b'.raw_pos = 0 /\ b'.read_end = 0
          /\ b' = [b EXCEPT !.pos = b'.pos, !.raw_pos = b'.raw_pos, !.read_end = b'.read_end]
      BY <1>2, <1>7 DEF Marks
    <2>2. OpAt(op, "fill")
      BY <1>7 DEF OpAt
    <2> QED
      BY <1>1, <1>2, <1>7, <2>1, <2>2, ReaderGoes DEF op, Reads
  <1>8. CASE op = "truncate" /\ Go(t, "truncate") /\ UNCHANGED b
    <2>1. use' = use /\ calls'[t].pc = "truncate" /\ calls'[t].op = "truncate"
      BY <1>1, <1>8, GoMoves DEF Places, op
    <2>2. RawTypes' /\ StreamOK'
      BY <1>1, <1>8, <2>1 DEF StreamInv, StreamTypes, RawTypes, StreamOK, ReaderOK, WriterOK
    <2>3. PlaceOK(t)' /\ SeekOK(t)'
      BY <2>1 DEF PlaceOK, SeekOK
    <2>4. OpAt(calls[t].op, "truncate")
      BY <1>8 DEF OpAt, op
    <2> QED
      BY <1>1, <1>8, <2>2, <2>3, <2>4, GoKeeps DEF Places
  <1>9. CASE op = "peek" /\ Go(t, "fill") /\ b' = [b EXCEPT !.read_end = -1]
    BY <1>5, <1>9 DEF Reads, OpAt
  <1>10. CASE op \in {"read1", "readall"} /\ Go(t, op) /\ b' = [b EXCEPT !.read_end = -1]
    BY <1>5, <1>10 DEF Reads, OpAt
  <1>11. CASE op = "read" /\ Go(t, "directread") /\ b' = [b EXCEPT !.read_end = -1]
    BY <1>5, <1>11 DEF Reads, OpAt
  <1> QED
    BY <1>3, <1>4, <1>6, <1>7, <1>8, <1>9, <1>10, <1>11

\* Whole blocks are no more than was asked for.
LEMMA BlocksFit ==
  ASSUME NEW n \in Nat
  PROVE  MINUS_LAST_BLOCK(n) \in Nat /\ MINUS_LAST_BLOCK(n) <= n
  <1>1. BufferSize \in Nat /\ BufferSize > 0
    BY BufferAssumption
  <1>2. n \div BufferSize \in Nat /\ BufferSize * (n \div BufferSize) <= n
        /\ BufferSize * (n \div BufferSize) >= 0 /\ BufferSize * (n \div BufferSize) \in Int
    BY <1>1
  <1> QED
    BY <1>2 DEF MINUS_LAST_BLOCK

\* What the raw stream gives to one read with room for n bytes.
LEMMA RawGives ==
  ASSUME NEW n \in Int, NEW k \in RawReads(n), at \in Nat, Len(file) \in Nat
  PROVE  /\ k \in Int
         /\ k > 0 => k \in Nat /\ k <= n /\ at < Len(file) /\ k <= Len(file) - at
         /\ ~(k > 0) => k \in {0, -1, -2}
  BY DEF RawReads, AtMost

\* A reader that takes k bytes from the raw stream keeps its cache right.
LEMMA ReaderReads ==
  ASSUME StreamInv, use.readable, UNCHANGED <<use, file>>,
         NEW k \in Nat, k > 0, at < Len(file), at' = at + k,
         mem' \in Seq(Bytes), Len(mem') = BufferSize,
         b'.pos \in 0..BufferSize, b'.raw_pos \in Int, b'.read_end \in -1..BufferSize,
         b'.read_end # -1 => b'.pos <= b'.read_end,
         b' = [Tracked(k) EXCEPT !.pos = b'.pos, !.raw_pos = b'.raw_pos, !.read_end = b'.read_end]
  PROVE  RawTypes' /\ StreamOK'
  <1>1. ReaderOK /\ ~use.writable /\ RawTypes /\ b \in Marks
    BY ReadsOnly
  <1>2. /\ Tracked(k) \in Marks /\ Tracked(k).write_end = b.write_end
        /\ Tracked(k).abs_pos = IF b.abs_pos # -1 THEN b.abs_pos + k ELSE -1
    BY <1>1, TrackedMarks
  <1>3. /\ b' \in Marks /\ b'.write_end = b.write_end /\ b'.abs_pos = Tracked(k).abs_pos
    BY <1>2 DEF Marks
  <1>4. RawTypes'
    BY <1>1, <1>3 DEF RawTypes
  <1>5. b'.abs_pos \in {-1, at'} /\ (~use.seekable => b'.abs_pos = -1)
    <2>1. b.abs_pos \in {-1, at} /\ (~use.seekable => b.abs_pos = -1)
      BY <1>1 DEF ReaderOK, RawTypes
    <2> QED
      BY <1>1, <1>2, <1>3, <2>1 DEF RawTypes
  <1>6. ReaderOK'
    BY <1>1, <1>3, <1>5 DEF ReaderOK
  <1> QED
    BY <1>1, <1>4, <1>6 DEF StreamOK

\* A read goes on with n bytes to be got, or ends.
LEMMA GoOnKeeps ==
  ASSUME StreamInv, use' = use,
         NEW t \in Callers, calls[t].pc \in {"fill", "directread"}, calls[t].op \in {"read", "readinto"},
         NEW got \in Seq(Bytes), NEW n \in Nat, GoOn(t, got, n),
         RawTypes', StreamOK',
         calls[t].pc = "directread" => b'.read_end = -1,
         n > 0 /\ ~(calls[t].pc = "directread" /\ calls[t].op = "read") =>
           b'.pos = IF b'.read_end = -1 THEN 0 ELSE b'.read_end
  PROVE  StreamInv'
  <1>1. calls[t] \in CallRecords /\ calls \in [Callers -> CallRecords] /\ use.readable /\ ~use.writable
    BY Holding DEF StreamInv, StreamTypes, Reads
  <1>2. CASE n = 0
    BY <1>2, CallEnds DEF GoOn
  <1>3. CASE n # 0
    <2> DEFINE pc == IF calls[t].op = "readinto" /\ n <= BufferSize THEN "fill"
                     ELSE IF calls[t].op = "read" /\ calls[t].pc = "directread" /\ n < BufferSize
                     THEN "reset" ELSE calls[t].pc
               c == [calls[t] EXCEPT !.got = got, !.n = n, !.pc = pc]
    <2>1. owner' = owner /\ calls' = [calls EXCEPT ![t] = c]
      BY <1>3 DEF GoOn
    <2>2. /\ pc \in {"fill", "reset", "directread"} /\ n \in Int /\ n > 0
          /\ pc = "reset" => calls[t].op = "read"
          /\ pc = "directread" => calls[t].pc = "directread"
          /\ pc = "fill" => ~(calls[t].pc = "directread" /\ calls[t].op = "read")
      BY <1>3
    <2> HIDE DEF pc
    <2>3. c \in CallRecords /\ c.pc = pc /\ c.op = calls[t].op /\ c.n = n
      BY <1>1, <2>2 DEF CallRecords, Places
    <2> HIDE DEF c
    <2>4. OpAt(c.op, c.pc) /\ calls'[t] = c
      BY <1>1, <2>1, <2>2, <2>3 DEF OpAt, Reads
    <2>5. PlaceOK(t)'
      BY <2>2, <2>3, <2>4 DEF PlaceOK
    <2> QED
      BY <1>1, <2>1, <2>2, <2>3, <2>4, <2>5, CallStays
  <1> QED
    BY <1>2, <1>3

\* A read ends with what it has got.
LEMMA StopKeeps ==
  ASSUME StreamInv, NEW t \in Callers, calls[t].pc \notin {"idle", "lock"}, NEW k, Stop(t, k),
         UNCHANGED <<use, file, at, mem, b>>
  PROVE  StreamInv'
  <1>1. PICK op, n, value : Returns(t, op, n, value)
    BY DEF Stop, Raise
  <1> QED
    BY <1>1, QuietEnd

LEMMA DirectReadKeeps ==
  ASSUME StreamInv, NEW t \in Callers, DirectRead(t)
  PROVE  StreamInv'
  <1> DEFINE n == calls[t].n
             room == IF calls[t].op = "read" THEN MINUS_LAST_BLOCK(n) ELSE n
  <1>1. calls[t].pc = "directread" /\ UNCHANGED <<use, file, mem>>
    BY DEF DirectRead
  <1>2. PICK k \in RawReads(room) :
          IF k <= 0 THEN Stop(t, k) /\ UNCHANGED <<at, b>>
          ELSE /\ at' = at + k
               /\ b' = Tracked(k)
               /\ GoOn(t, calls[t].got \o Slice(file, at, k), n - k)
    BY DEF DirectRead
  <1>3. /\ use.readable /\ calls[t] \in CallRecords /\ calls[t].op \in {"read", "readinto"}
        /\ CallOK(t) /\ PlaceOK(t) /\ b \in Marks /\ at \in Nat /\ file \in Seq(Bytes)
        /\ Len(file) \in Nat /\ mem \in Seq(Bytes) /\ Len(mem) = BufferSize
    BY <1>1, Holding DEF OpAt, Reads
  <1>4. n \in Nat /\ room \in Nat /\ room <= n
    <2>1. n \in Nat
      BY <1>3 DEF CallOK, CallRecords
    <2> QED
      BY <2>1, BlocksFit
  <1>5. /\ k \in Int
        /\ k > 0 => k \in Nat /\ k <= room /\ at < Len(file) /\ k <= Len(file) - at
    BY <1>3, <1>4, RawGives
  <1> HIDE DEF room
  <1>6. CASE k <= 0
    <2>1. Stop(t, k) /\ UNCHANGED <<use, file, at, mem, b>>
      BY <1>1, <1>2, <1>6
    <2> QED
      BY <1>1, <2>1, StopKeeps
  <1>7. CASE k > 0
    <2> DEFINE got == calls[t].got \o Slice(file, at, k)
               left == n - k
    <2>1. at' = at + k /\ b' = Tracked(k) /\ GoOn(t, got, left)
      BY <1>2, <1>5, <1>7
    <2>2. got \in Seq(Bytes)
      <3>1. Slice(file, at, k) \in Seq(Bytes)
        BY <1>3, <1>5, <1>7, SliceSeq
      <3>2. calls[t].got \in Seq(Bytes)
        BY <1>3 DEF CallRecords
      <3> QED
        BY <3>1, <3>2, ConcatProperties
    <2>3. left \in Nat
      BY <1>4, <1>5, <1>7
    <2> HIDE DEF got, left
    <2>4. b.read_end = -1 /\ (calls[t].op = "readinto" => b.pos = 0)
      BY <1>1, <1>3 DEF PlaceOK
    <2>5. /\ Tracked(k) \in Marks
          /\ Tracked(k).pos = b.pos /\ Tracked(k).raw_pos = b.raw_pos
          /\ Tracked(k).read_end = b.read_end
      BY <1>3, <1>5, <1>7, TrackedMarks
    <2>6. /\ b'.pos = b.pos /\ b'.read_end = -1
          /\ b'.pos \in 0..BufferSize /\ b'.raw_pos \in Int /\ b'.read_end \in -1..BufferSize
          /\ b' = [Tracked(k) EXCEPT !.pos = b'.pos, !.raw_pos = b'.raw_pos, !.read_end = b'.read_end]
      BY <1>3, <2>1, <2>4, <2>5 DEF Marks
    <2>7. RawTypes' /\ StreamOK'
      BY <1>1, <1>3, <1>5, <1>7, <2>1, <2>6, ReaderReads
    <2> QED
      BY <1>1, <1>3, <2>1, <2>2, <2>3, <2>4, <2>6, <2>7, GoOnKeeps
  <1> QED
    BY <1>5, <1>6, <1>7

LEMMA FillKeeps ==
  ASSUME StreamInv, NEW t \in Callers, Fill(t)
  PROVE  StreamInv'
  <1> DEFINE start == IF VALID_READ_BUFFER THEN b.read_end ELSE 0
             bytes(k) == Slice(file, at, k)
             m(k) == AtMost(k, calls[t].n)
             filled(k) == [Tracked(k) EXCEPT !.read_end = start + k, !.raw_pos = start + k]
  <1>1. calls[t].pc = "fill" /\ UNCHANGED <<use, file>>
    BY DEF Fill
  <1>2. PICK k \in RawReads(BufferSize - start) :
          IF k <= 0
          THEN /\ IF calls[t].op = "peek"
                  THEN \/ k = -1 /\ Raise(t) /\ UNCHANGED b
                       \/ k # -1 /\ Returns(t, "peek", 0, <<>>) /\ b' = [b EXCEPT !.pos = 0]
                  ELSE Stop(t, k) /\ UNCHANGED b
               /\ UNCHANGED <<at, mem>>
          ELSE /\ at' = at + k
               /\ mem' = Overlay(mem, start, bytes(k))
               /\ IF calls[t].op = "peek"
                  THEN Returns(t, "peek", 0, bytes(k)) /\ b' = [filled(k) EXCEPT !.pos = 0]
                  ELSE /\ GoOn(t, calls[t].got \o Slice(mem', b.pos, m(k)), calls[t].n - m(k))
                       /\ b' = [filled(k) EXCEPT !.pos = @ + m(k)]
    BY DEF Fill
  <1>3. /\ use.readable /\ calls[t] \in CallRecords /\ calls[t].op \in {"read", "readinto", "peek"}
        /\ CallOK(t) /\ PlaceOK(t) /\ b \in Marks /\ at \in Nat /\ file \in Seq(Bytes)
        /\ Len(file) \in Nat /\ mem \in Seq(Bytes) /\ Len(mem) = BufferSize
        /\ BufferSize \in Nat
    BY <1>1, Holding, BufferAssumption DEF OpAt, Reads
  <1>4. start \in 0..BufferSize /\ (calls[t].op = "peek" => start = 0 /\ b.read_end = -1)
        /\ (calls[t].op # "peek" => b.pos = start)
    BY <1>1, <1>3, ReadsOnly DEF PlaceOK, Marks
  <1> HIDE DEF start
  <1>5. /\ k \in Int
        /\ k > 0 => k \in Nat /\ start + k <= BufferSize /\ at < Len(file) /\ k <= Len(file) - at
    <2>1. BufferSize - start \in Int /\ start \in Int
      BY <1>3, <1>4
    <2>2. /\ k \in Int
          /\ k > 0 => k \in Nat /\ k <= BufferSize - start /\ at < Len(file) /\ k <= Len(file) - at
      BY <1>3, <2>1, RawGives
    <2> QED
      BY <1>3, <2>1, <2>2
  <1>6. CASE k <= 0 /\ b' = b
    <2>1. UNCHANGED <<use, file, at, mem, b>>
      BY <1>1, <1>2, <1>6
    <2>2. CASE calls[t].op = "peek"
      <3>1. \E op, n, value : Returns(t, op, n, value)
        BY <1>2, <1>6, <2>2 DEF Raise
      <3> QED
        BY <1>1, <2>1, <3>1, QuietEnd
    <2>3. CASE calls[t].op # "peek"
      <3>1. Stop(t, k)
        BY <1>2, <1>6, <2>3
      <3> QED
        BY <1>1, <2>1, <3>1, StopKeeps
    <2> QED
      BY <2>2, <2>3
  <1>7. CASE /\ k <= 0 /\ calls[t].op = "peek"
             /\ Returns(t, "peek", 0, <<>>) /\ b' = [b EXCEPT !.pos = 0]
    <2>1. UNCHANGED <<use, file, at, mem>>
      BY <1>1, <1>2, <1>7
    <2>2. /\ b'.pos \in 0..BufferSize /\ b'.raw_pos \in Int /\ b'.read_end = -1
          /\ b' = [b EXCEPT !.pos = b'.pos, !.raw_pos = b'.raw_pos, !.read_end = b'.read_end]
      BY <1>3, <1>4, <1>7 DEF Marks
    <2>3. RawTypes' /\ StreamOK'
      BY <1>3, <2>1, <2>2, Empties
    <2> QED
      BY <1>1, <1>7, <2>1, <2>3, CallEnds
  <1>8. CASE k > 0
    <2>1. at' = at + k /\ mem' = Overlay(mem, start, bytes(k))
      BY <1>2, <1>5, <1>8
    <2>2. bytes(k) \in Seq(Bytes) /\ Len(bytes(k)) = k
      BY <1>3, <1>5, <1>8, SliceSeq
    <2> HIDE DEF bytes
    <2>3. mem' \in Seq(Bytes) /\ Len(mem') = BufferSize
      BY <1>3, <1>4, <1>5, <1>8, <2>1, <2>2, OverlaySeq
    <2>4. /\ filled(k) \in Marks /\ filled(k).pos = b.pos
          /\ filled(k).read_end = start + k /\ filled(k).raw_pos = start + k
          /\ filled(k) = [Tracked(k) EXCEPT !.pos = b.pos, !.raw_pos = start + k,
                                            !.read_end = start + k]
      <3>1. start + k \in -1..BufferSize /\ start + k \in Int
        BY <1>3, <1>4, <1>5, <1>8
      <3>2. Tracked(k) \in Marks /\ Tracked(k).pos = b.pos
        BY <1>3, <1>5, <1>8, TrackedMarks
      <3> QED
        BY <3>1, <3>2 DEF Marks
    <2>5. CASE calls[t].op = "peek"
      <3>1. Returns(t, "peek", 0, bytes(k)) /\ b' = [filled(k) EXCEPT !.pos = 0]
        BY <1>2, <1>5, <1>8, <2>5 DEF bytes
      <3>2. b' = [Tracked(k) EXCEPT !.pos = 0, !.raw_pos = start + k, !.read_end = start + k]
        BY <3>1, <1>3, <1>5, <1>8, TrackedMarks DEF Marks
      <3>3. /\ b'.pos = 0 /\ b'.raw_pos = start + k /\ b'.read_end = start + k
            /\ b' = [Tracked(k) EXCEPT !.pos = b'.pos, !.raw_pos = b'.raw_pos,
                                       !.read_end = b'.read_end]
        BY <3>2, <1>3, <1>5, <1>8, TrackedMarks DEF Marks
      <3>4. /\ b'.pos \in 0..BufferSize /\ b'.raw_pos \in Int /\ b'.read_end \in -1..BufferSize
            /\ b'.pos <= b'.read_end
        BY <1>3, <1>4, <1>5, <1>8, <3>3
      <3>5. RawTypes' /\ StreamOK'
        BY <1>1, <1>3, <1>5, <1>8, <2>1, <2>3, <3>3, <3>4, ReaderReads
      <3> QED
        BY <1>1, <3>1, <3>5, CallEnds
    <2>6. CASE calls[t].op # "peek"
      <3> DEFINE got == calls[t].got \o Slice(mem', b.pos, m(k))
                 left == calls[t].n - m(k)
      <3>1. GoOn(t, got, left) /\ b' = [filled(k) EXCEPT !.pos = @ + m(k)]
        BY <1>2, <1>5, <1>8, <2>6
      <3>2. /\ calls[t].n \in Nat /\ calls[t].n > 0 /\ calls[t].op \in {"read", "readinto"}
            /\ b.pos = start
        BY <1>3, <1>4, <2>6 DEF CallOK, CallRecords
      <3>3. /\ m(k) \in Nat /\ m(k) <= k /\ left \in Nat /\ (left > 0 => m(k) = k)
            /\ m(k) <= calls[t].n
        BY <1>5, <1>8, <3>2 DEF AtMost
      <3>4. got \in Seq(Bytes)
        <4>1. Slice(mem', b.pos, m(k)) \in Seq(Bytes)
          <5>1. b.pos \in Nat /\ b.pos + m(k) <= Len(mem')
            BY <1>3, <1>4, <1>5, <1>8, <2>3, <3>2, <3>3
          <5> QED
            BY <2>3, <3>3, <5>1, SliceSeq
        <4>2. calls[t].got \in Seq(Bytes)
          BY <1>3 DEF CallRecords
        <4> QED
          BY <4>1, <4>2, ConcatProperties
      <3> HIDE DEF got, left, m
      <3>5. /\ b'.pos = start + m(k) /\ b'.raw_pos = start + k /\ b'.read_end = start + k
            /\ b' = [Tracked(k) EXCEPT !.pos = b'.pos, !.raw_pos = b'.raw_pos,
                                       !.read_end = b'.read_end]
        <4>1. b' = [Tracked(k) EXCEPT !.pos = start + m(k), !.raw_pos = start + k,
                                      !.read_end = start + k]
          BY <2>4, <3>1, <3>2, <1>3, <1>5, <1>8, TrackedMarks DEF Marks
        <4> QED
          BY <4>1, <1>3, <1>5, <1>8, TrackedMarks DEF Marks
      <3>6. /\ b'.pos \in 0..BufferSize /\ b'.raw_pos \in Int /\ b'.read_end \in -1..BufferSize
            /\ b'.pos <= b'.read_end /\ b'.read_end # -1
        BY <1>3, <1>4, <1>5, <1>8, <3>3, <3>5
      <3>7. RawTypes' /\ StreamOK'
        BY <1>1, <1>3, <1>5, <1>8, <2>1, <2>3, <3>5, <3>6, ReaderReads
      <3> QED
        BY <1>1, <3>1, <3>2, <3>3, <3>4, <3>5, <3>6, <3>7, GoOnKeeps
    <2> QED
      BY <2>5, <2>6
  <1> QED
    BY <1>2, <1>5, <1>6, <1>7, <1>8

LEMMA RawReadAllKeeps ==
  ASSUME StreamInv, NEW t \in Callers, RawReadAll(t)
  PROVE  StreamInv'
  <1> DEFINE left == Len(file) - at
  <1>1. calls[t].pc = "readall" /\ UNCHANGED <<use, file, mem, b>>
    BY DEF RawReadAll
  <1>2. PICK k \in RawReads(left) :
          IF k <= 0 THEN Stop(t, k) /\ UNCHANGED at
          ELSE /\ k < left => use.nonblocking
               /\ at' = at + k
               /\ Returns(t, "readall", 0, calls[t].got \o Slice(file, at, k))
    BY DEF RawReadAll
  <1>3. /\ use.readable /\ ~use.writable /\ PlaceOK(t) /\ ReaderOK /\ b \in Marks
        /\ at \in Nat /\ Len(file) \in Nat /\ RawTypes /\ (use.seekable => ~use.nonblocking)
    <2>1. use.readable
      BY <1>1, Holding DEF OpAt, Reads
    <2>2. use.seekable => ~use.nonblocking
      BY DEF StreamInv, StreamTypes, OneWay
    <2> QED
      BY <1>1, <2>1, <2>2, Holding, ReadsOnly
  <1>4. /\ k \in Int
        /\ k > 0 => k \in Nat /\ at < Len(file) /\ k <= left
    BY <1>3, RawGives
  <1>5. CASE k <= 0
    <2>1. Stop(t, k) /\ UNCHANGED <<use, file, at, mem, b>>
      BY <1>1, <1>2, <1>5
    <2> QED
      BY <1>1, <2>1, StopKeeps
  <1>6. CASE k > 0
    <2>1. /\ at' = at + k /\ (k < left => use.nonblocking)
          /\ Returns(t, "readall", 0, calls[t].got \o Slice(file, at, k))
      BY <1>2, <1>4, <1>6
    <2>2. RawTypes'
      BY <1>1, <1>3, <1>4, <1>6, <2>1 DEF RawTypes
    <2>3. b.read_end = -1
      BY <1>1, <1>3 DEF PlaceOK
    <2>4. b.abs_pos = -1 \/ Len(file) <= at'
      BY <1>3, <1>4, <1>6, <2>1 DEF ReaderOK
    <2>5. StreamOK'
      BY <1>1, <1>3, <2>1, <2>3, <2>4 DEF StreamOK, ReaderOK
    <2> QED
      BY <1>1, <2>1, <2>2, <2>5, CallEnds
  <1> QED
    BY <1>4, <1>5, <1>6

LEMMA RawRead1Keeps ==
  ASSUME StreamInv, NEW t \in Callers, RawRead1(t)
  PROVE  StreamInv'
  <1>1. calls[t].pc = "read1" /\ UNCHANGED <<use, file, mem>>
    BY DEF RawRead1
  <1>2. PICK k \in RawReads(calls[t].n) :
          IF k <= 0
          THEN /\ IF k = -1 THEN Raise(t) ELSE Returns(t, "read1", calls[t].asked, <<>>)
               /\ UNCHANGED <<at, b>>
          ELSE /\ at' = at + k
               /\ b' = Tracked(k)
               /\ Returns(t, "read1", calls[t].asked, Slice(file, at, k))
    BY DEF RawRead1
  <1>3. /\ use.readable /\ PlaceOK(t) /\ b \in Marks /\ calls[t].n \in Int
        /\ at \in Nat /\ Len(file) \in Nat /\ RawTypes
    <2>1. use.readable /\ calls[t].n \in Int
      BY <1>1, Holding DEF OpAt, Reads, CallRecords
    <2> QED
      BY <1>1, <2>1, Holding, ReadsOnly
  <1>4. /\ k \in Int
        /\ k > 0 => k \in Nat /\ at < Len(file)
    BY <1>3, RawGives
  <1>5. CASE k <= 0
    <2>1. UNCHANGED <<use, file, at, mem, b>>
      BY <1>1, <1>2, <1>5
    <2>2. \E op, n, value : Returns(t, op, n, value)
      BY <1>2, <1>5 DEF Raise
    <2> QED
      BY <1>1, <2>1, <2>2, QuietEnd
  <1>6. CASE k > 0
    <2>1. /\ at' = at + k /\ b' = Tracked(k)
          /\ Returns(t, "read1", calls[t].asked, Slice(file, at, k))
      BY <1>2, <1>4, <1>6
    <2>2. b.read_end = -1
      BY <1>1, <1>3 DEF PlaceOK
    <2>3. /\ b'.pos = b.pos /\ b'.raw_pos = b.raw_pos /\ b'.read_end = -1
          /\ b' = [Tracked(k) EXCEPT !.pos = b'.pos, !.raw_pos = b'.raw_pos,
                                     !.read_end = b'.read_end]
      BY <1>3, <1>4, <1>6, <2>1, <2>2, TrackedMarks DEF Marks
    <2>4. b'.pos \in 0..BufferSize /\ b'.raw_pos \in Int /\ b'.read_end \in -1..BufferSize
      BY <1>3, <2>2, <2>3 DEF Marks
    <2>5. mem' \in Seq(Bytes) /\ Len(mem') = BufferSize
      BY <1>1, <1>3 DEF RawTypes
    <2>6. RawTypes' /\ StreamOK'
      BY <1>1, <1>3, <1>4, <1>6, <2>1, <2>3, <2>4, <2>5, ReaderReads
    <2> QED
      BY <1>1, <2>1, <2>6, CallEnds
  <1> QED
    BY <1>4, <1>5, <1>6

-----------------------------------------------------------------------------
(* Writing, seeking and truncating.                                        *)

LEMMA WriteBufferedKeeps ==
  ASSUME StreamInv, NEW t \in Callers, WriteBuffered(t)
  PROVE  StreamInv'
  <1> DEFINE data == calls[t].data
             c == IF VALID_READ_BUFFER \/ VALID_WRITE_BUFFER THEN b
                  ELSE [b EXCEPT !.pos = 0, !.raw_pos = 0]
             end == c.pos + Len(data)
  <1>1. calls[t].pc = "write" /\ UNCHANGED <<file, at>>
    BY DEF WriteBuffered
  <1>2. /\ use.writable /\ ~use.readable /\ WriterOK /\ b \in Marks /\ calls[t].op = "write"
        /\ data \in Seq(Bytes) /\ Len(data) \in Nat /\ mem \in Seq(Bytes) /\ Len(mem) = BufferSize
        /\ RawTypes /\ BufferSize \in Nat
    <2>1. use.writable /\ calls[t].op = "write" /\ data \in Seq(Bytes)
      BY <1>1, Holding DEF OpAt, CallRecords
    <2>2. RawTypes
      BY DEF StreamInv, StreamTypes
    <2>3. Len(data) \in Nat
      BY <2>1
    <2> HIDE DEF data
    <2> QED
      BY <1>1, <2>1, <2>2, <2>3, Holding, Writes, BufferAssumption
  <1>3. /\ c \in Marks /\ c.pos = IF b.write_end = -1 THEN 0 ELSE b.write_end
        /\ c.raw_pos = IF b.write_end = -1 THEN 0 ELSE b.write_pos
        /\ c.read_end = -1 /\ c.write_pos = b.write_pos /\ c.write_end = b.write_end
    <2>1. (VALID_READ_BUFFER \/ VALID_WRITE_BUFFER) <=> b.write_end # -1
      BY <1>2, Writes
    <2>2. CASE b.write_end = -1
      <3>1. c = [b EXCEPT !.pos = 0, !.raw_pos = 0]
        BY <2>1, <2>2
      <3> HIDE DEF c
      <3>2. 0 \in 0..BufferSize
        BY <1>2
      <3>3. /\ c \in Marks /\ c.pos = 0 /\ c.raw_pos = 0 /\ c.read_end = b.read_end
            /\ c.write_pos = b.write_pos /\ c.write_end = b.write_end
        <4>1. b \in Marks
          BY <1>2
        <4>2. c = [abs_pos |-> b.abs_pos, pos |-> 0, raw_pos |-> 0, read_end |-> b.read_end,
                   write_pos |-> b.write_pos, write_end |-> b.write_end]
          BY <3>1, <4>1 DEF Marks
        <4> QED
          BY <3>2, <4>1, <4>2 DEF Marks
      <3> QED
        BY <1>2, <2>2, <3>3 DEF WriterOK
    <2>3. CASE b.write_end # -1
      <3>1. c = b
        BY <2>1, <2>3
      <3> HIDE DEF c
      <3> QED
        BY <1>2, <2>3, <3>1 DEF WriterOK
    <2> QED
      BY <2>2, <2>3
  <1> HIDE DEF data, c
  <1>4. CASE end <= BufferSize
    <2>1. /\ mem' = Overlay(mem, c.pos, data) /\ use' = use
          /\ b' = [Adjusted(c, end) EXCEPT
                !.write_pos = IF ~VALID_WRITE_BUFFER \/ @ > c.pos THEN c.pos ELSE @,
                !.write_end = IF end > @ THEN end ELSE @]
          /\ Returns(t, "write", Len(data), <<>>)
      BY <1>4 DEF WriteBuffered, data, c
    <2>2. mem' \in Seq(Bytes) /\ Len(mem') = BufferSize
      <3>1. c.pos \in 0..Len(mem) /\ c.pos + Len(data) <= Len(mem)
        BY <1>2, <1>3, <1>4 DEF Marks
      <3> QED
        BY <1>2, <2>1, <3>1, OverlaySeq
    <2>3. end \in 0..BufferSize /\ end \in Int
      BY <1>2, <1>3, <1>4 DEF Marks
    <2> DEFINE a == Adjusted(c, end)
    <2>4. /\ a \in Marks /\ a.pos = end /\ a.raw_pos = c.raw_pos /\ a.read_end = -1
          /\ a.write_pos = b.write_pos /\ a.write_end = b.write_end
      BY <1>2, <1>3, <2>3 DEF Adjusted, Marks
    <2> HIDE DEF a
    <2>5. IF ~VALID_WRITE_BUFFER \/ a.write_pos > c.pos THEN c.pos = 0 ELSE a.write_pos = b.write_pos
      BY <1>2, <1>3, <2>4, Writes DEF WriterOK, Marks
    <2>6. /\ (IF ~VALID_WRITE_BUFFER \/ a.write_pos > c.pos THEN c.pos ELSE a.write_pos) = b.write_pos
          /\ (IF end > a.write_end THEN end ELSE a.write_end) = end
      BY <1>2, <1>3, <2>3, <2>4, <2>5, Writes DEF WriterOK, Marks
    <2>7. b' = [a EXCEPT !.write_pos = b.write_pos, !.write_end = end]
      BY <2>1, <2>4, <2>6 DEF a
    <2>8. /\ b' \in Marks /\ b'.pos = end /\ b'.raw_pos = c.raw_pos /\ b'.read_end = -1
          /\ b'.write_pos = b.write_pos /\ b'.write_end = end
      <3>1. b.write_pos \in 0..BufferSize /\ end \in -1..BufferSize
        BY <1>2, <2>3 DEF Marks
      <3> QED
        BY <2>4, <2>7, <3>1 DEF Marks
    <2>9. RawTypes'
      BY <1>1, <1>2, <2>2, <2>8 DEF RawTypes
    <2>10. WriterOK'
      BY <1>1, <1>2, <1>3, <2>3, <2>8 DEF WriterOK, Marks
    <2>11. StreamOK'
      BY <1>2, <2>1, <2>10 DEF StreamOK
    <2> QED
      BY <1>1, <2>1, <2>9, <2>11, CallEnds
  <1>5. CASE ~(end <= BufferSize)
    <2>1. b' = c /\ Go(t, "flush") /\ mem' = mem
      BY <1>5 DEF WriteBuffered, data, c
    <2>2. use' = use /\ calls'[t].pc = "flush" /\ calls'[t].op = "write"
      BY <1>1, <1>2, <2>1, GoMoves DEF Places
    <2>3. RawTypes'
      BY <1>1, <1>2, <1>3, <2>1 DEF RawTypes
    <2>4. StreamOK'
      BY <1>1, <1>2, <1>3, <2>1, <2>2 DEF StreamOK, WriterOK
    <2>5. PlaceOK(t)' /\ SeekOK(t)'
      BY <2>2 DEF PlaceOK, SeekOK
    <2>6. OpAt(calls[t].op, "flush")
      BY <1>2 DEF OpAt
    <2> QED
      BY <1>1, <1>2, <2>1, <2>3, <2>4, <2>5, <2>6, GoKeeps DEF Places
  <1> QED
    BY <1>4, <1>5

\* The marks of a buffer that holds e bytes to be written and nothing else.
Filled(m, e) ==
  [m EXCEPT !.read_end = -1, !.raw_pos = 0, !.pos = e, !.write_pos = 0, !.write_end = e]

LEMMA FilledMarks ==
  ASSUME NEW m \in Marks, NEW e \in 0..BufferSize
  PROVE  /\ Filled(m, e) \in Marks /\ Filled(m, e).read_end = -1 /\ Filled(m, e).raw_pos = 0
         /\ Filled(m, e).pos = e /\ Filled(m, e).write_pos = 0 /\ Filled(m, e).write_end = e
  <1>1. 0 \in 0..BufferSize /\ -1 \in -1..BufferSize /\ e \in -1..BufferSize
    BY BufferAssumption
  <1>2. /\ m = [f \in {"abs_pos", "pos", "raw_pos", "read_end", "write_pos", "write_end"} |-> m[f]]
        /\ DOMAIN m = {"abs_pos", "pos", "raw_pos", "read_end", "write_pos", "write_end"}
        /\ m.abs_pos \in Int
    BY DEF Marks
  <1>3. /\ Filled(m, e) = [f \in DOMAIN m |-> Filled(m, e)[f]]
        /\ DOMAIN Filled(m, e) = DOMAIN m
    BY DEF Filled
  <1>4. /\ Filled(m, e).read_end = -1 /\ Filled(m, e).raw_pos = 0
        /\ Filled(m, e).pos = e /\ Filled(m, e).write_pos = 0 /\ Filled(m, e).write_end = e
        /\ Filled(m, e).abs_pos = m.abs_pos
    BY <1>2 DEF Filled
  <1>5. Filled(m, e) = [abs_pos |-> m.abs_pos, pos |-> e, raw_pos |-> 0, read_end |-> -1,
                        write_pos |-> 0, write_end |-> e]
    BY <1>2, <1>3, <1>4
  <1> QED
    BY <1>1, <1>2, <1>4, <1>5 DEF Marks

LEMMA WriteBlocksKeeps ==
  ASSUME StreamInv, NEW t \in Callers, WriteBlocks(t)
  PROVE  StreamInv'
  <1> DEFINE data == calls[t].data
             k == AtMost(BufferSize - Len(PendingBytes), Len(data))
             more == SubSeq(data, 1, k)
  <1>1. /\ calls[t].pc = "flushwrite" /\ calls[t].op = "write" /\ UNCHANGED <<use, file, at>>
        /\ mem' = Overlay(mem, 0, PendingBytes \o more)
        /\ b' = [b EXCEPT !.read_end = -1, !.raw_pos = @ - b.write_pos,
                          !.pos = @ - b.write_pos + k,
                          !.write_pos = 0, !.write_end = @ - b.write_pos + k]
    BY DEF WriteBlocks
  <1>2. PICK op, n, value : Returns(t, op, n, value)
    BY DEF WriteBlocks
  <1>3. /\ use.writable /\ ~use.readable /\ WriterOK /\ b \in Marks
        /\ data \in Seq(Bytes) /\ Len(data) \in Nat /\ mem \in Seq(Bytes) /\ Len(mem) = BufferSize
        /\ RawTypes /\ BufferSize \in Nat /\ b.write_end # -1 /\ b.write_pos < b.write_end
    <2>1. data \in Seq(Bytes)
      BY <1>1, Holding DEF CallRecords
    <2>2. RawTypes
      BY DEF StreamInv, StreamTypes
    <2>3. Len(data) \in Nat
      BY <2>1
    <2> HIDE DEF data
    <2> QED
      BY <1>1, <2>1, <2>2, <2>3, Holding, Writes, BufferAssumption DEF PlaceOK
  <1>4. /\ PendingBytes \in Seq(Bytes) /\ Len(PendingBytes) = b.write_end - b.write_pos
        /\ Len(PendingBytes) \in 0..BufferSize
    BY <1>3, WriterSees, Writes DEF InWait, Marks
  <1>5. k \in Nat /\ k <= Len(data) /\ Len(PendingBytes) + k <= BufferSize
    BY <1>3, <1>4 DEF AtMost
  <1> HIDE DEF k, data
  <1>6. more \in Seq(Bytes) /\ Len(more) = k
    BY <1>3, <1>5, PrefixSeq
  <1> HIDE DEF more
  <1>7. mem' \in Seq(Bytes) /\ Len(mem') = BufferSize
    <2> DEFINE d == PendingBytes \o more
    <2>1. d \in Seq(Bytes) /\ Len(d) = Len(PendingBytes) + k
      BY <1>4, <1>6, ConcatProperties
    <2>2. mem' = Overlay(mem, 0, d)
      BY <1>1
    <2> HIDE DEF d
    <2>3. 0 \in 0..Len(mem) /\ 0 + Len(d) <= Len(mem)
      BY <1>3, <1>4, <1>5, <2>1
    <2> QED
      BY <1>3, <2>1, <2>2, <2>3, OverlaySeq
  <1> DEFINE e == Len(PendingBytes) + k
  <1>8. e \in 0..BufferSize /\ e \in -1..BufferSize /\ 0 \in 0..BufferSize /\ -1 \in -1..BufferSize
    BY <1>3, <1>4, <1>5
  <1>9. /\ b.pos - b.write_pos + k = e /\ b.write_end - b.write_pos + k = e
        /\ b.raw_pos - b.write_pos = 0
    BY <1>3, <1>4, <1>5 DEF WriterOK, Marks
  <1> HIDE DEF e
  <1>10. b' = Filled(b, e)
    BY <1>1, <1>3, <1>9 DEF Marks, Filled
  <1>11. /\ b' \in Marks /\ b'.read_end = -1 /\ b'.raw_pos = 0 /\ b'.pos = e
         /\ b'.write_pos = 0 /\ b'.write_end = e
    BY <1>3, <1>8, <1>10, FilledMarks
  <1>12. RawTypes'
    BY <1>1, <1>3, <1>7, <1>11 DEF RawTypes
  <1>13. StreamOK'
    BY <1>1, <1>3, <1>8, <1>11 DEF StreamOK, WriterOK
  <1> QED
    BY <1>1, <1>2, <1>12, <1>13, CallEnds

\* A writer has nothing to take back.
LEMMA DirectSeekKeeps ==
  ASSUME StreamInv, NEW t \in Callers, DirectSeek(t)
  PROVE  StreamInv'
  <1>1. calls[t].pc = "direct" /\ Go(t, "directwrite") /\ UNCHANGED <<file, mem>>
    BY DEF DirectSeek
  <1>2. /\ use.writable /\ ~use.readable /\ b \in Marks /\ WriterOK /\ PlaceOK(t)
        /\ calls[t].op = "write" /\ RawTypes
    <2>1. use.writable /\ calls[t].op = "write" /\ PlaceOK(t)
      BY <1>1, Holding DEF OpAt
    <2> QED
      BY <2>1, Writes DEF StreamInv, StreamTypes, RawTypes
  <1>3. RAW_OFFSET = 0
    BY <1>1, <1>2, WriterSees DEF PlaceOK, InWait, Marks
  <1>4. UNCHANGED <<at, b>>
    BY <1>3 DEF DirectSeek
  <1>5. use' = use /\ calls'[t].pc = "directwrite" /\ calls'[t].op = "write"
    BY <1>1, <1>2, GoMoves DEF Places
  <1>6. RawTypes' /\ StreamOK'
    BY <1>1, <1>2, <1>4, <1>5 DEF RawTypes, StreamOK, WriterOK
  <1>7. PlaceOK(t)' /\ SeekOK(t)'
    BY <1>1, <1>2, <1>4, <1>5 DEF PlaceOK, SeekOK
  <1>8. OpAt(calls[t].op, "directwrite")
    BY <1>2 DEF OpAt
  <1> QED
    BY <1>1, <1>6, <1>7, <1>8, GoKeeps DEF Places

\* What is known where write() goes past the buffer.
LEMMA Direct ==
  ASSUME StreamInv, NEW t \in Callers, calls[t].pc = "directwrite"
  PROVE  /\ use.writable /\ ~use.readable /\ b \in Marks /\ WriterOK /\ RawTypes
         /\ calls[t].op = "write" /\ calls[t] \in CallRecords
         /\ b.write_end \in {-1, 0} /\ b.write_pos = 0
         /\ calls[t].data \in Seq(Bytes) /\ Len(calls[t].data) \in Nat
         /\ BufferSize \in Nat /\ BufferSize > 0
  <1>1. use.writable /\ calls[t].op = "write" /\ PlaceOK(t) /\ calls[t] \in CallRecords
    BY Holding DEF OpAt
  <1>2. ~use.readable /\ WriterOK /\ b \in Marks /\ RawTypes
    BY <1>1, Writes DEF StreamInv, StreamTypes, RawTypes
  <1>3. b.write_end \in {-1, 0} /\ b.write_pos = 0
    BY <1>1, <1>2 DEF PlaceOK, WriterOK
  <1>4. calls[t].data \in Seq(Bytes) /\ Len(calls[t].data) \in Nat
    BY <1>1 DEF CallRecords
  <1> QED
    BY <1>1, <1>2, <1>3, <1>4, BufferAssumption

LEMMA DirectWriteKeeps ==
  ASSUME StreamInv, NEW t \in Callers, DirectWrite(t)
  PROVE  StreamInv'
  <1> DEFINE data == calls[t].data
  <1>1. calls[t].pc = "directwrite" /\ UNCHANGED <<use, mem, owner>>
    BY DEF DirectWrite
  <1>2. PICK k \in 1..Len(data) :
          /\ RawWrite(data, k)
          /\ b' = Tracked(k)
          /\ calls' = [calls EXCEPT ![t].data = SubSeq(data, k + 1, Len(data)), ![t].n = @ + k]
    BY DEF DirectWrite
  <1>3. /\ use.writable /\ ~use.readable /\ b \in Marks /\ WriterOK /\ RawTypes
        /\ calls[t].op = "write" /\ calls[t] \in CallRecords
        /\ b.write_end \in {-1, 0} /\ b.write_pos = 0
        /\ data \in Seq(Bytes) /\ Len(data) \in Nat
    BY <1>1, Direct
  <1>4. k \in Nat
    BY <1>3
  <1>5. file' \in Seq(Bytes) /\ at' \in Nat /\ at' <= Len(file')
    <2>1. at \in 0..Len(file) /\ file \in Seq(Bytes) /\ Len(file) \in Nat
      BY <1>3 DEF WriterOK, RawTypes
    <2> HIDE DEF data
    <2> QED
      BY <1>2, <1>3, <2>1, RawWriteGrows
  <1>6. /\ b' \in Marks /\ b'.pos = b.pos /\ b'.raw_pos = b.raw_pos /\ b'.read_end = b.read_end
        /\ b'.write_pos = b.write_pos /\ b'.write_end = b.write_end
    BY <1>2, <1>3, <1>4, TrackedMarks
  <1>7. RawTypes'
    BY <1>1, <1>3, <1>5, <1>6 DEF RawTypes
  <1>8. StreamOK'
    BY <1>1, <1>3, <1>5, <1>6 DEF StreamOK, WriterOK
  <1> DEFINE rest == SubSeq(data, k + 1, Len(data))
             c == [calls[t] EXCEPT !.data = rest, !.n = @ + k]
  <1>9. calls' = [calls EXCEPT ![t] = c]
    BY <1>2
  <1>10. rest \in Seq(Bytes) /\ calls[t].n + k \in Int
    <2>1. calls[t].n \in Int
      BY <1>3 DEF CallRecords
    <2> QED
      BY <1>3, <1>4, <2>1
  <1> HIDE DEF rest, data
  <1>11. c \in CallRecords /\ c.pc = "directwrite" /\ c.op = "write"
    BY <1>1, <1>3, <1>4, <1>10 DEF CallRecords
  <1> HIDE DEF c
  <1>12. calls'[t] = c
    BY <1>9 DEF StreamInv, StreamTypes
  <1>13. OpAt(c.op, c.pc) /\ PlaceOK(t)' /\ SeekOK(t)'
    BY <1>3, <1>6, <1>11, <1>12 DEF OpAt, PlaceOK, SeekOK
  <1> QED
    BY <1>1, <1>3, <1>7, <1>8, <1>9, <1>11, <1>13, CallStays

LEMMA DirectFailsKeeps ==
  ASSUME StreamInv, NEW t \in Callers, DirectFails(t)
  PROVE  StreamInv'
  <1> DEFINE data == calls[t].data
  <1>1. calls[t].pc = "directwrite" /\ UNCHANGED <<use, file, at>> /\ Len(data) > BufferSize
    BY DEF DirectFails
  <1>2. /\ use.writable /\ ~use.readable /\ b \in Marks /\ WriterOK /\ RawTypes
        /\ b.write_end \in {-1, 0} /\ b.write_pos = 0
        /\ data \in Seq(Bytes) /\ Len(data) \in Nat /\ BufferSize \in Nat /\ BufferSize > 0
    BY <1>1, Direct
  <1>3. CASE Raise(t) /\ UNCHANGED <<mem, b>>
    <2>1. \E op, n, value : Returns(t, op, n, value)
      BY <1>3 DEF Raise
    <2> QED
      BY <1>1, <1>3, <2>1, QuietEnd
  <1>4. CASE /\ mem' = SubSeq(data, 1, BufferSize)
             /\ b' = [Adjusted([b EXCEPT !.raw_pos = 0], BufferSize) EXCEPT !.write_end = BufferSize]
             /\ Returns(t, "blocked", calls[t].n + BufferSize, <<>>)
    <2>1. mem' \in Seq(Bytes) /\ Len(mem') = BufferSize
      <3>1. BufferSize \in 0..Len(data)
        BY <1>1, <1>2
      <3> HIDE DEF data
      <3> QED
        BY <1>2, <1>4, <3>1, PrefixSeq
    <2>2. BufferSize \in 0..BufferSize /\ BufferSize \in -1..BufferSize
      BY <1>2
    <2>3. b' = [b EXCEPT !.raw_pos = 0, !.pos = BufferSize, !.write_end = BufferSize]
      BY <1>2, <1>4 DEF Adjusted, Marks
    <2>4. /\ b' \in Marks /\ b'.read_end = -1 /\ b'.raw_pos = 0 /\ b'.pos = BufferSize
          /\ b'.write_pos = 0 /\ b'.write_end = BufferSize
      <3>1. b' = Filled(b, BufferSize)
        BY <1>2, <2>3 DEF WriterOK, Marks, Filled
      <3> QED
        BY <1>2, <2>2, <3>1, FilledMarks
    <2>5. RawTypes'
      BY <1>1, <1>2, <2>1, <2>4 DEF RawTypes
    <2>6. StreamOK'
      BY <1>1, <1>2, <2>4 DEF StreamOK, WriterOK
    <2> QED
      BY <1>1, <1>4, <2>5, <2>6, CallEnds
  <1> QED
    BY <1>3, <1>4 DEF DirectFails

LEMMA WriteRestKeeps ==
  ASSUME StreamInv, NEW t \in Callers, WriteRest(t)
  PROVE  StreamInv'
  <1> DEFINE data == calls[t].data
             e == Len(data)
  <1>1. /\ calls[t].pc = "directwrite" /\ UNCHANGED <<use, file, at>> /\ e <= BufferSize
        /\ mem' = Overlay(mem, 0, data)
        /\ b' = [b EXCEPT !.pos = e, !.raw_pos = 0, !.read_end = -1,
                          !.write_pos = 0, !.write_end = e]
        /\ Returns(t, "write", calls[t].n + e, <<>>)
    BY DEF WriteRest
  <1>2. /\ use.writable /\ ~use.readable /\ b \in Marks /\ WriterOK /\ RawTypes
        /\ data \in Seq(Bytes) /\ e \in Nat /\ BufferSize \in Nat /\ BufferSize > 0
    BY <1>1, Direct
  <1>3. mem' \in Seq(Bytes) /\ Len(mem') = BufferSize
    <2>1. /\ 0 \in 0..Len(mem) /\ 0 + Len(data) <= Len(mem)
          /\ mem \in Seq(Bytes) /\ Len(mem) = BufferSize
      BY <1>1, <1>2 DEF RawTypes
    <2> HIDE DEF data
    <2> QED
      BY <1>1, <1>2, <2>1, OverlaySeq
  <1>4. e \in 0..BufferSize /\ e \in -1..BufferSize /\ 0 \in 0..BufferSize /\ -1 \in -1..BufferSize
    BY <1>1, <1>2
  <1> HIDE DEF e
  <1>5. /\ b' \in Marks /\ b'.read_end = -1 /\ b'.raw_pos = 0 /\ b'.pos = e
        /\ b'.write_pos = 0 /\ b'.write_end = e
    <2>1. b' = Filled(b, e)
      BY <1>1, <1>2 DEF Marks, Filled
    <2> QED
      BY <1>2, <1>4, <2>1, FilledMarks
  <1>6. RawTypes'
    BY <1>1, <1>2, <1>3, <1>5 DEF RawTypes
  <1>7. StreamOK'
    BY <1>1, <1>2, <1>4, <1>5 DEF StreamOK, WriterOK
  <1> QED
    BY <1>1, <1>6, <1>7, CallEnds

LEMMA SeekRawKeeps ==
  ASSUME StreamInv, NEW t \in Callers, SeekRaw(t)
  PROVE  StreamInv'
  <1> DEFINE target == CASE calls[t].whence = 0 -> calls[t].target
                         [] calls[t].whence = 1 -> at - RAW_OFFSET + calls[t].target
                         [] calls[t].whence = 2 -> Len(file) + calls[t].target
  <1>1. calls[t].pc = "rawseek" /\ UNCHANGED <<use, file, mem>>
    BY DEF SeekRaw
  <1>2. /\ b \in Marks /\ PlaceOK(t) /\ calls[t] \in CallRecords /\ calls[t].op = "seek"
        /\ use.readable \in BOOLEAN /\ use.writable = ~use.readable
        /\ (use.writable => SeekOK(t)) /\ RawTypes /\ at \in Nat /\ Len(file) \in Nat
    BY <1>1, Holding DEF OpAt, StreamInv, StreamTypes, RawTypes
  <1>3. CASE ~(RawSeek(target) /\ b' = [b EXCEPT !.abs_pos = at', !.raw_pos = -1, !.read_end = -1]
               /\ Returns(t, "seek", target, <<>>))
    <2>1. Raise(t) /\ UNCHANGED <<at, b>>
      BY <1>3 DEF SeekRaw
    <2>2. \E op, n, value : Returns(t, op, n, value)
      BY <2>1 DEF Raise
    <2> QED
      BY <1>1, <2>1, <2>2, QuietEnd
  <1>4. CASE /\ RawSeek(target) /\ b' = [b EXCEPT !.abs_pos = at', !.raw_pos = -1, !.read_end = -1]
             /\ Returns(t, "seek", target, <<>>)
    <2>1. at' = target /\ target >= 0 /\ use.seekable
      BY <1>4 DEF RawSeek
    <2>2. target \in Nat
      <3>1. RAW_OFFSET \in Int
        BY <1>2 DEF RAW_OFFSET, Marks
      <3>2. calls[t].whence \in {0, 1, 2} /\ calls[t].target \in Int
        BY <1>2 DEF CallRecords
      <3>3. target \in Int
        BY <1>2, <3>1, <3>2
      <3> HIDE DEF target
      <3> QED
        BY <2>1, <3>3
    <2>3. use.writable => target <= Len(file)
      <3> SUFFICES ASSUME use.writable PROVE target <= Len(file)
        OBVIOUS
      <3>1. RAW_OFFSET = 0 /\ InWait = 0 /\ at <= Len(file)
        BY <1>1, <1>2, WriterSees, Writes DEF PlaceOK, InWait, WriterOK
      <3>2. calls[t].whence \in {0, 1, 2} /\ calls[t].target \in Int
        BY <1>2 DEF CallRecords
      <3> QED
        BY <1>2, <3>1, <3>2 DEF SeekOK
    <2> HIDE DEF target
    <2>4. -1 \in -1..BufferSize /\ at' \in Nat /\ at' \in Int
      BY <2>1, <2>2, BufferAssumption
    <2>5. /\ b' \in Marks /\ b'.abs_pos = at' /\ b'.read_end = -1 /\ b'.pos = b.pos
          /\ b'.write_pos = b.write_pos /\ b'.write_end = b.write_end
      <3>1. b' = [b EXCEPT !.abs_pos = at', !.raw_pos = -1, !.read_end = -1]
        BY <1>4
      <3> QED
        <4>1. b \in Marks
          BY <1>2
        <4>2. b' = [abs_pos |-> at', pos |-> b.pos, raw_pos |-> -1, read_end |-> -1,
                    write_pos |-> b.write_pos, write_end |-> b.write_end]
          BY <3>1, <4>1 DEF Marks
        <4> QED
          BY <2>4, <4>1, <4>2 DEF Marks
    <2>6. RawTypes'
      BY <1>1, <1>2, <2>4, <2>5 DEF RawTypes
    <2>7. StreamOK'
      <3>1. CASE use.readable
        BY <1>1, <1>2, <2>1, <2>5, <3>1, ReadsOnly DEF StreamOK, ReaderOK
      <3>2. CASE use.writable
        <4>1. b.write_end = -1 /\ WriterOK
          BY <1>1, <1>2, <3>2, Writes DEF PlaceOK
        <4> QED
          BY <1>1, <1>2, <2>1, <2>3, <2>5, <3>2, <4>1 DEF StreamOK, WriterOK
      <3> QED
        BY <1>2, <3>1, <3>2
    <2> QED
      BY <1>1, <1>4, <2>6, <2>7, CallEnds
  <1> QED
    BY <1>3, <1>4

LEMMA TruncateKeeps ==
  ASSUME StreamInv, NEW t \in Callers, Truncate(t)
  PROVE  StreamInv'
  <1>1. /\ calls[t].pc = "truncate" /\ UNCHANGED <<use, at, mem>>
        /\ file' = SubSeq(file, 1, at) /\ b' = [b EXCEPT !.abs_pos = at]
        /\ Returns(t, "truncate", at, <<>>)
    BY DEF Truncate
  <1>2. use.writable /\ ~use.readable /\ b \in Marks /\ WriterOK /\ RawTypes
    <2>1. use.writable
      BY <1>1, Holding DEF OpAt
    <2> QED
      BY <2>1, Writes DEF StreamInv, StreamTypes, RawTypes
  <1>3. file' \in Seq(Bytes) /\ Len(file') = at
    <2>1. at \in 0..Len(file) /\ file \in Seq(Bytes)
      BY <1>2 DEF WriterOK, RawTypes
    <2> QED
      BY <1>1, <2>1, PrefixSeq
  <1>4. /\ b' \in Marks /\ b'.read_end = b.read_end /\ b'.pos = b.pos /\ b'.raw_pos = b.raw_pos
        /\ b'.write_pos = b.write_pos /\ b'.write_end = b.write_end
    <2>1. at \in Int
      BY <1>2 DEF RawTypes
    <2> QED
      BY <1>1, <1>2, <2>1 DEF Marks
  <1>5. RawTypes'
    BY <1>1, <1>2, <1>3, <1>4 DEF RawTypes
  <1>6. StreamOK'
    BY <1>1, <1>2, <1>3, <1>4 DEF StreamOK, WriterOK, RawTypes
  <1> QED
    BY <1>1, <1>5, <1>6, CallEnds

-----------------------------------------------------------------------------
(* The theorems.                                                           *)

LEMMA InitStream == BufferInit /\ OneWay => StreamInv
  <1> SUFFICES ASSUME BufferInit, OneWay PROVE StreamInv
    OBVIOUS
  <1>1. use \in Uses /\ use.readable \in BOOLEAN /\ use.writable = ~use.readable
    BY BufferAssumption DEF BufferInit, OneWay
  <1>2. file \in Seq(Bytes)
    <2>1. file \in BoundedSeq(Bytes, MaxSize)
      BY DEF BufferInit
    <2> QED
      BY <2>1 DEF BoundedSeq, SeqOf
  <1>3. mem \in Seq(Bytes) /\ Len(mem) = BufferSize
    BY BufferAssumption DEF BufferInit
  <1>4. /\ 0 \in 0..BufferSize /\ -1 \in -1..BufferSize /\ at = 0
        /\ b = [abs_pos |-> IF use.seekable THEN 0 ELSE -1, pos |-> 0, raw_pos |-> 0,
                read_end |-> -1, write_pos |-> 0, write_end |-> -1]
    BY BufferAssumption DEF BufferInit
  <1>5. b \in Marks
    BY <1>4 DEF Marks
  <1>6. RawTypes
    BY <1>2, <1>3, <1>4, <1>5 DEF RawTypes
  <1>7. calls = [t \in Callers |-> Idle] /\ calls \in [Callers -> CallRecords]
    BY IdleRecord DEF BufferInit
  <1>8. \A t \in Callers : CallOK(t) /\ PlaceOK(t) /\ SeekOK(t)
    BY <1>7, IdleRecord DEF CallOK, PlaceOK, SeekOK
  <1>9. StreamOK
    <2>1. Len(file) \in Nat
      BY <1>2
    <2> QED
      BY <1>4, <2>1 DEF StreamOK, ReaderOK, WriterOK
  <1> QED
    BY <1>1, <1>6, <1>7, <1>8, <1>9 DEF StreamInv, StreamTypes

LEMMA NextStream == StreamInv /\ [BufferNext]_bufferVars => StreamInv'
  <1> SUFFICES ASSUME StreamInv, [BufferNext]_bufferVars PROVE StreamInv'
    OBVIOUS
  <1>1. CASE UNCHANGED bufferVars
    BY <1>1 DEF bufferVars, StreamInv, StreamTypes, RawTypes, OneWay, CallOK, PlaceOK, SeekOK,
                InWait, StreamOK, ReaderOK, WriterOK
  <1>2. ASSUME NEW t \in Callers, CallStep(t) PROVE StreamInv'
    <2>1. CASE \E n \in Requests : Read(t, n) \/ ReadInto(t, n) \/ Read1(t, n)
      BY <2>1, ReadKeeps, ReadIntoKeeps, Read1Keeps
    <2>2. CASE \E method \in {"readall", "peek", "flush", "truncate"} : Plain(t, method)
      BY <2>2, PlainKeeps
    <2>3. CASE \E data \in Payloads : Write(t, data)
      BY <2>3, WriteKeeps
    <2>4. CASE \E target \in -1..MaxSize, whence \in 0..2 : Seek(t, target, whence)
      BY <2>4, SeekKeeps
    <2>5. CASE Tell(t) \/ Enter(t)
      BY <2>5, TellKeeps, EnterKeeps
    <2>6. CASE FlushSeek(t) \/ FlushWrite(t) \/ NothingToFlush(t) \/ FlushFails(t) \/ Rewind(t)
      BY <2>6, FlushSeekKeeps, FlushWriteKeeps, NothingToFlushKeeps, FlushFailsKeeps, RewindKeeps
    <2>7. CASE ReadGeneric(t) \/ Reset(t) \/ DirectRead(t) \/ Fill(t) \/ RawReadAll(t) \/ RawRead1(t)
      BY <2>7, ReadGenericKeeps, ResetKeeps, DirectReadKeeps, FillKeeps, RawReadAllKeeps,
         RawRead1Keeps
    <2>8. CASE WriteBuffered(t) \/ WriteBlocks(t) \/ DirectSeek(t) \/ DirectWrite(t) \/ DirectFails(t)
      BY <2>8, WriteBufferedKeeps, WriteBlocksKeeps, DirectSeekKeeps, DirectWriteKeeps,
         DirectFailsKeeps
    <2>9. CASE WriteRest(t) \/ SeekRaw(t) \/ Truncate(t)
      BY <2>9, WriteRestKeeps, SeekRawKeeps, TruncateKeeps
    <2> QED
      BY <1>2, <2>1, <2>2, <2>3, <2>4, <2>5, <2>6, <2>7, <2>8, <2>9 DEF CallStep
  <1> QED
    BY <1>1, <1>2 DEF BufferNext

\* What the marks of a reader's and a writer's buffer mean, at every moment of
\* every call, whatever the raw stream gives, takes or refuses and however long
\* the file is.
THEOREM StreamInvariance == BufferSpec /\ OneWay => []StreamInv
  <1>1. BufferInit /\ OneWay => StreamInv
    BY InitStream
  <1>2. StreamInv /\ [BufferNext]_bufferVars => StreamInv'
    BY NextStream
  <1> QED
    BY <1>1, <1>2, PTL DEF BufferSpec

\* The buffer of a BufferedReader or BufferedWriter is sound when no call is
\* under way, and seek() may trust the cached position of the raw stream.
THEOREM BuffersAreSound == BufferSpec /\ OneWay => []BufferSound
  <1>1. StreamInv => BufferSound
    <2> SUFFICES ASSUME StreamInv PROVE BufferSound
      OBVIOUS
    <2>1. /\ b \in Marks /\ file \in Seq(Bytes) /\ mem \in Seq(Bytes) /\ Len(mem) = BufferSize
          /\ StreamOK
      BY DEF StreamInv, StreamTypes, RawTypes
    <2>2. mem \in [1..BufferSize -> Bytes]
      BY <2>1
    <2>3. /\ VALID_READ_BUFFER => b.pos <= b.read_end
          /\ READAHEAD > 0 => b.abs_pos \in {-1, at}
      BY <2>1 DEF VALID_READ_BUFFER, READAHEAD, StreamOK, ReaderOK, Marks
    <2>4. VALID_WRITE_BUFFER => b.write_pos <= b.write_end /\ b.write_end <= BufferSize
      BY <2>1 DEF VALID_WRITE_BUFFER, StreamOK, WriterOK, Marks
    <2>5. b.pos \in 0..BufferSize
      BY <2>1 DEF Marks
    <2> QED
      BY <2>1, <2>2, <2>3, <2>4, <2>5 DEF BufferSound
  <1> QED
    BY <1>1, StreamInvariance, PTL
=============================================================================

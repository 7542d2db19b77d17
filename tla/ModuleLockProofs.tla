-------------------------- MODULE ModuleLockProofs --------------------------
(***************************************************************************)
(* Theorems about _ModuleLock, for any sets of threads and of locks and    *)
(* any number of imports.                                                  *)
(*                                                                         *)
(* The inductive invariant IInv is in ModuleLock.  Its part SomebodyLooks  *)
(* is the reason why has_deadlock() may read without locks: of the threads *)
(* that could close a circle, one announces itself last.                   *)
(***************************************************************************)
EXTENDS ModuleLock, FiniteSetTheorems, SequenceTheorems, TLAPS

-----------------------------------------------------------------------------
(* How often a lock is on a stack.                                         *)

LEMMA DepthIsNat ==
  ASSUME NEW S, NEW s \in Seq(S), NEW l
  PROVE  /\ IsFiniteSet({i \in DOMAIN s : s[i] = l})
         /\ Depth(l, s) \in Nat
         /\ Depth(l, s) = 0 <=> l \notin ToSet(s)
<1> DEFINE D == {i \in DOMAIN s : s[i] = l}
<1>1. Len(s) \in Nat /\ DOMAIN s = 1..Len(s)
  BY LenProperties
<1>2. IsFiniteSet(1..Len(s)) /\ D \in SUBSET (1..Len(s))
  BY <1>1, FS_Interval
<1>3. IsFiniteSet(D)
  BY <1>2, FS_Subset
<1>4. D = {} <=> l \notin ToSet(s)
  BY DEF ToSet
<1> HIDE DEF D
<1>5. Cardinality(D) \in Nat /\ (Cardinality(D) = 0 <=> D = {})
  BY <1>3, FS_CardinalityType, FS_EmptySet
<1> QED BY <1>3, <1>4, <1>5 DEF D, Depth

\* A lock that is pushed is on the stack once more.
LEMMA DepthOfPush ==
  ASSUME NEW S, NEW s \in Seq(S), NEW l \in S, NEW m
  PROVE  /\ <<l>> \o s \in Seq(S)
         /\ Depth(m, <<l>> \o s) = Depth(m, s) + (IF m = l THEN 1 ELSE 0)
<1> DEFINE c == <<l>> \o s
           D == {i \in DOMAIN s : s[i] = m}
           Up == {i + 1 : i \in D}
           E == {i \in DOMAIN c : c[i] = m}
<1>1. /\ Len(s) \in Nat /\ DOMAIN s = 1..Len(s)
      /\ c \in Seq(S) /\ DOMAIN c = 1..(Len(s) + 1)
      /\ c[1] = l
      /\ \A i \in 1..Len(s) : c[i + 1] = s[i]
  <2>1. <<l>> \in Seq(S) /\ Len(<<l>>) = 1 /\ <<l>>[1] = l
    OBVIOUS
  <2>2. Len(s) \in Nat /\ DOMAIN s = 1..Len(s)
    BY LenProperties
  <2>3. /\ c \in Seq(S) /\ Len(c) = Len(<<l>>) + Len(s)
        /\ \A i \in 1..(Len(<<l>>) + Len(s)) :
             c[i] = IF i <= Len(<<l>>) THEN <<l>>[i] ELSE s[i - Len(<<l>>)]
    BY <2>1, ConcatProperties
  <2>4. DOMAIN c = 1..Len(c)
    BY <2>3, LenProperties
  <2> HIDE DEF c
  <2> QED BY <2>1, <2>2, <2>3, <2>4
<1> HIDE DEF c
<1>2. IsFiniteSet(D) /\ D \in SUBSET Nat
  <2>1. IsFiniteSet(D)
    BY DepthIsNat
  <2>2. D \in SUBSET Nat
    BY <1>1
  <2> QED BY <2>1, <2>2
<1>3. E = IF m = l THEN Up \cup {1} ELSE Up
  <2>1. ASSUME NEW i \in E PROVE (i = 1 /\ m = l) \/ i \in Up
    <3>1. CASE i = 1
      BY <1>1, <3>1
    <3>2. CASE i # 1
      <4>1. i - 1 \in 1..Len(s) /\ s[i - 1] = m /\ i = (i - 1) + 1
        BY <1>1, <3>2
      <4> QED BY <4>1, <1>1
    <3> QED BY <3>1, <3>2
  <2>2. ASSUME NEW i \in Up PROVE i \in E
    BY <1>1
  <2>3. m = l => 1 \in E
    BY <1>1
  <2> QED BY <2>1, <2>2, <2>3
<1>4. 1 \notin Up
  BY <1>1
<1>5. IsFiniteSet(Up) /\ Cardinality(Up) = Cardinality(D)
  <2> DEFINE f == [i \in D |-> i + 1]
  <2>1. f \in Bijection(D, Up)
    BY <1>2 DEF Bijection, Injection, Surjection, IsInjective
  <2>2. ExistsBijection(D, Up)
    BY <2>1 DEF ExistsBijection
  <2> HIDE DEF D, Up, f
  <2> QED BY <1>2, <2>2, FS_Bijection
<1>6. Cardinality(E) = Cardinality(D) + (IF m = l THEN 1 ELSE 0)
  <2> HIDE DEF D, Up, E
  <2>1. Cardinality(Up \cup {1}) = Cardinality(Up) + 1
    BY <1>4, <1>5, FS_AddElement
  <2>2. Cardinality(D) \in Nat
    BY <1>2, FS_CardinalityType
  <2> QED BY <1>3, <1>5, <2>1, <2>2
<1> QED BY <1>1, <1>6 DEF Depth, c

\* A lock that is popped is on the stack once less.
LEMMA DepthOfPop ==
  ASSUME NEW S, NEW s \in Seq(S), s # <<>>, NEW m
  PROVE  /\ Head(s) \in S /\ Tail(s) \in Seq(S)
         /\ Depth(m, s) = Depth(m, Tail(s)) + (IF m = Head(s) THEN 1 ELSE 0)
<1> DEFINE h == Head(s)
           r == Tail(s)
<1>1. h \in S /\ r \in Seq(S)
  BY HeadTailProperties
<1>2. s = <<h>> \o r
  OBVIOUS
<1> HIDE DEF h, r
<1>3. Depth(m, <<h>> \o r) = Depth(m, r) + (IF m = h THEN 1 ELSE 0)
  BY <1>1, DepthOfPush
<1> QED BY <1>1, <1>2, <1>3 DEF h, r

-----------------------------------------------------------------------------
(* The inductive invariant.                                                *)

LEMMA InitIInv == Init => IInv
<1> SUFFICES ASSUME Init PROVE IInv
  OBVIOUS
<1> USE ModuleLockAssumption DEF Init
<1>1. TypeOK
  BY EmptySeq DEF TypeOK, Places
<1>2. OwnerHolds
  <2>1. \A l \in Locks : Depth(l, <<>>) = 0
    BY DepthIsNat, EmptySeq, FS_EmptySet DEF Depth
  <2> QED BY <2>1 DEF OwnerHolds
<1>3. SleeperWillWake /\ LastLinkStands /\ InAcquire /\ FoundOwned /\ WakeupHeld
  BY DEF SleeperWillWake, LastLinkStands, InAcquire, FoundOwned, WakeupHeld
<1>4. SomebodyLooks
  BY DEF SomebodyLooks, Waiting
<1> QED BY <1>1, <1>2, <1>3, <1>4 DEF IInv, LockSound

\* What a thread inside acquire() wants is a lock, whose mutex it may hold.
LEMMA WantedLock ==
  ASSUME IInv, NEW t \in Threads, pc[t] # "start"
  PROVE  /\ Wanted(t) \in Locks
         /\ mutex[Wanted(t)] = t <=> pc[t] \in {"test", "walk", "hop", "register"}
BY DEF IInv, LockSound, TypeOK, InAcquire, Wanted

\* Who has a lock on its stack owns it.
LEMMA StackIsOwned ==
  ASSUME IInv, NEW t \in Threads, stack[t] # <<>>
  PROVE  LET l == Head(stack[t]) IN
         /\ l \in Locks /\ owner[l] = t
         /\ count[l] \in Nat \ {0}
<1> DEFINE l == Head(stack[t])
           r == Tail(stack[t])
<1>1. stack[t] \in Seq(Locks)
  BY DEF IInv, LockSound, TypeOK
<1>2. l \in Locks /\ r \in Seq(Locks) /\ Depth(l, stack[t]) = Depth(l, r) + 1
  BY <1>1, DepthOfPop
<1>3. Depth(l, r) \in Nat
  BY <1>2, DepthIsNat
<1> HIDE DEF l, r
<1>4. (IF owner[l] = t THEN count[l] ELSE 0)
      = Depth(l, stack[t]) + (IF pc[t] = "got" /\ Wanted(t) = l THEN 1 ELSE 0)
  BY <1>2 DEF IInv, LockSound, OwnerHolds
<1>5. owner[l] = t /\ count[l] # 0
  BY <1>2, <1>3, <1>4
<1>6. count[l] \in Nat
  BY <1>2 DEF IInv, LockSound, TypeOK
<1> QED BY <1>2, <1>5, <1>6 DEF l

\* release() finds wakeup held when a waiter counts on it.
LEMMA ReleaseNoError ==
  ASSUME IInv, NEW t \in Threads, Release(t)
  PROVE  /\ waiters[Head(stack[t])] > 0 => wakeup[Head(stack[t])]
         /\ pc' = pc
<1> DEFINE l == Head(stack[t])
<1>1. l \in Locks
  BY StackIsOwned DEF Release
<1> HIDE DEF l
<1>2. waiters[l] > 0 => wakeup[l]
  BY <1>1 DEF IInv, LockSound, TypeOK, WakeupHeld
<1>3. pc[t] = "start" /\ pc' = [pc EXCEPT ![t] = "start"]
  BY <1>2 DEF Release, Goto, l
<1> QED BY <1>2, <1>3 DEF l, IInv, LockSound, TypeOK

LEMMA StepTypes ==
  ASSUME IInv, NEW t \in Threads, Step(t)
  PROVE  TypeOK'
<1> USE ModuleLockAssumption DEF IInv, LockSound, TypeOK, Places, Goto
<1>1. ASSUME NEW l \in Locks, Announce(t, l) PROVE TypeOK'
  BY <1>1 DEF Announce, fields, reading
<1>2. CASE Enter(t)
  BY <1>2, WantedLock DEF Enter, fields, reading
<1>3. CASE Take(t)
  BY <1>3, WantedLock DEF Take, fields, reading
<1>4. CASE StartWalk(t)
  BY <1>4, WantedLock DEF StartWalk, fields, reading
<1>5. CASE Walk(t)
  BY <1>5, WantedLock DEF Walk, fields, reading
<1>6. CASE Hop(t)
  <2>1. Wanted(t) \in Locks /\ seen[t] \in Locks
    BY <1>6, WantedLock DEF Hop, FoundOwned
  <2>2. tid' \in [Threads -> Threads \cup {None}]
    BY <1>6, <2>1 DEF Hop
  <2>3. mutex' \in [Locks -> Threads \cup {None}] /\ pc' \in [Threads -> Places]
    BY <1>6, <2>1 DEF Hop
  <2> QED BY <1>6, <2>2, <2>3 DEF Hop, fields
<1>7. CASE Register(t)
  BY <1>7, WantedLock DEF Register, WakeupHeld, fields, reading
<1>8. CASE Wake(t)
  BY <1>8, WantedLock DEF Wake, fields, reading
<1>9. CASE Pass(t)
  BY <1>9, WantedLock DEF Pass, fields, reading
<1>10. CASE Leave(t)
  BY <1>10, WantedLock, DepthOfPush DEF Leave, fields, reading
<1>11. CASE Release(t)
  <2> DEFINE l == Head(stack[t])
  <2>1. l \in Locks /\ count[l] - 1 \in Nat /\ Tail(stack[t]) \in Seq(Locks)
    BY <1>11, DepthOfPop, StackIsOwned DEF Release
  <2> HIDE DEF l
  <2>2. count' \in [Locks -> Nat] /\ stack' \in [Threads -> Seq(Locks)]
    BY <1>11, <2>1 DEF Release, l
  <2>3. waiters' \in [Locks -> 0..1]
    BY <1>11, <2>1 DEF Release, l
  <2>5. wakeup' \in [Locks -> BOOLEAN]
    BY <1>11, <2>1 DEF Release, l
  <2>4. owner' \in [Locks -> Threads \cup {None}] /\ pc' \in [Threads -> Places]
    BY <1>11, <2>1 DEF Release, l
  <2> QED BY <1>11, <2>2, <2>3, <2>4, <2>5 DEF Release, reading
<1> QED BY <1>1, <1>2, <1>3, <1>4, <1>5, <1>6, <1>7, <1>8, <1>9, <1>10, <1>11 DEF Step, Proceed

\* The owner and the count change in Take and Release only, the stacks in
\* Leave and Release.
LEMMA StepOwnerHolds ==
  ASSUME IInv, NEW t \in Threads, Step(t)
  PROVE  OwnerHolds'
<1> USE DEF Goto, Wanted, fields, reading
<1>0. \A l \in Locks, u \in Threads :
        /\ Depth(l, stack[u]) \in Nat
        /\ owner[l] = None <=> count[l] = 0
        /\ (IF owner[l] = u THEN count[l] ELSE 0)
           = Depth(l, stack[u]) + (IF pc[u] = "got" /\ blocking_on[u] = l THEN 1 ELSE 0)
        /\ count[l] \in Nat
  BY DepthIsNat DEF IInv, LockSound, TypeOK, OwnerHolds
<1> SUFFICES ASSUME NEW l \in Locks
             PROVE  /\ owner'[l] = None <=> count'[l] = 0
                    /\ \A u \in Threads :
                         (IF owner'[l] = u THEN count'[l] ELSE 0)
                         = Depth(l, stack'[u])
                           + (IF pc'[u] = "got" /\ blocking_on'[u] = l THEN 1 ELSE 0)
  BY DEF OwnerHolds, Depth
<1>1. CASE Take(t)
  <2> DEFINE w == blocking_on[t]
  <2>1. w \in Locks
    BY <1>1, WantedLock DEF Take
  <2>2. /\ owner' = [owner EXCEPT ![w] = t] /\ count' = [count EXCEPT ![w] = @ + 1]
        /\ pc' = [pc EXCEPT ![t] = "got"] /\ pc[t] = "test"
        /\ count[w] = 0 \/ owner[w] = t
        /\ blocking_on' = blocking_on /\ stack' = stack
    BY <1>1 DEF Take
  <2> QED BY <2>1, <2>2, <1>0, ModuleLockAssumption DEF IInv, LockSound, TypeOK
<1>2. CASE Leave(t)
  <2>1. CASE pc[t] = "refused"
    BY <2>1, <1>2, <1>0 DEF Leave, IInv, LockSound, TypeOK
  <2>2. CASE pc[t] = "got"
    <3> DEFINE w == blocking_on[t]
    <3>1. w \in Locks /\ stack[t] \in Seq(Locks)
      BY <2>2, WantedLock DEF IInv, LockSound, TypeOK
    <3>2. Depth(l, <<w>> \o stack[t]) = Depth(l, stack[t]) + (IF l = w THEN 1 ELSE 0)
      BY <3>1, DepthOfPush
    <3>3. /\ pc' = [pc EXCEPT ![t] = "start"] /\ owner' = owner /\ count' = count
          /\ stack' = [stack EXCEPT ![t] = <<w>> \o stack[t]]
          /\ blocking_on' = [blocking_on EXCEPT ![t] = None]
      BY <1>2, <2>2 DEF Leave
    <3> HIDE DEF w
    <3>4. ASSUME NEW u \in Threads, u # t
          PROVE  stack'[u] = stack[u] /\ pc'[u] = pc[u] /\ blocking_on'[u] = blocking_on[u]
      BY <3>3, <3>4 DEF IInv, LockSound, TypeOK
    <3>5. stack'[t] = <<w>> \o stack[t] /\ pc'[t] = "start"
      BY <3>3 DEF IInv, LockSound, TypeOK
    <3>6. (IF owner[l] = t THEN count[l] ELSE 0) = Depth(l, stack[t]) + (IF l = w THEN 1 ELSE 0)
      BY <1>0, <2>2 DEF w
    <3> QED BY <1>0, <3>2, <3>3, <3>4, <3>5, <3>6
  <2> QED BY <1>2, <2>1, <2>2 DEF Leave
<1>3. CASE Release(t)
  <2> DEFINE h == Head(stack[t])
             r == Tail(stack[t])
  <2>1. h \in Locks /\ owner[h] = t /\ count[h] \in Nat \ {0} /\ pc[t] = "start"
    BY <1>3, StackIsOwned DEF Release
  <2>2. stack[t] \in Seq(Locks) /\ stack[t] # <<>>
    BY <1>3 DEF Release, IInv, LockSound, TypeOK
  <2>3. /\ Depth(l, stack[t]) = Depth(l, r) + (IF l = h THEN 1 ELSE 0)
        /\ Depth(l, r) \in Nat
    BY <2>2, DepthOfPop, DepthIsNat
  <2>4. /\ count' = [count EXCEPT ![h] = @ - 1]
        /\ owner' = [owner EXCEPT ![h] = IF count[h] = 1 THEN None ELSE @]
        /\ stack' = [stack EXCEPT ![t] = r]
        /\ blocking_on' = blocking_on
        /\ \A u \in Threads : pc'[u] = "got" <=> pc[u] = "got"
    BY <1>3, <2>1 DEF Release, IInv, LockSound, TypeOK
  <2> HIDE DEF h, r
  <2>5. /\ stack'[t] = r /\ \A u \in Threads : u # t => stack'[u] = stack[u]
        /\ count'[h] = count[h] - 1 /\ owner'[h] = IF count[h] = 1 THEN None ELSE t
        /\ l # h => count'[l] = count[l] /\ owner'[l] = owner[l]
    BY <2>1, <2>4 DEF IInv, LockSound, TypeOK
  <2>6. owner'[l] = None <=> count'[l] = 0
    BY <2>1, <2>5, <1>0, ModuleLockAssumption
  <2>7. ASSUME NEW u \in Threads
        PROVE  (IF owner'[l] = u THEN count'[l] ELSE 0)
                         = Depth(l, stack'[u])
                           + (IF pc'[u] = "got" /\ blocking_on'[u] = l THEN 1 ELSE 0)
    BY <2>1, <2>3, <2>4, <2>5, <1>0, ModuleLockAssumption
  <2> QED BY <2>6, <2>7
<1>4. CASE \/ \E m \in Locks : Announce(t, m)
           \/ Enter(t) \/ StartWalk(t) \/ Walk(t) \/ Hop(t) \/ Register(t) \/ Wake(t) \/ Pass(t)
  <2>1. /\ owner' = owner /\ count' = count /\ stack' = stack
        /\ \A u \in Threads : pc'[u] = "got" <=> pc[u] = "got"
        /\ \A u \in Threads : pc[u] = "got" => blocking_on'[u] = blocking_on[u]
    BY <1>4 DEF Announce, Enter, StartWalk, Walk, Hop, Register, Wake, Pass,
                IInv, LockSound, TypeOK
  <2> QED BY <2>1, <1>0
<1> QED BY <1>1, <1>2, <1>3, <1>4 DEF Step, Proceed

LEMMA StepInAcquire ==
  ASSUME IInv, NEW t \in Threads, Step(t)
  PROVE  InAcquire'
<1> USE ModuleLockAssumption DEF IInv, LockSound, TypeOK, InAcquire, Goto, Wanted, fields, reading
<1>1. ASSUME NEW l \in Locks, Announce(t, l) PROVE InAcquire'
  BY <1>1 DEF Announce
<1>2. CASE Enter(t)
  BY <1>2, WantedLock DEF Enter
<1>3. CASE Take(t)
  BY <1>3, WantedLock DEF Take
<1>4. CASE StartWalk(t)
  BY <1>4 DEF StartWalk
<1>5. CASE Walk(t)
  BY <1>5 DEF Walk
<1>6. CASE Hop(t)
  BY <1>6, WantedLock DEF Hop
<1>7. CASE Register(t)
  BY <1>7, WantedLock DEF Register
<1>8. CASE Wake(t)
  BY <1>8 DEF Wake
<1>9. CASE Pass(t)
  BY <1>9 DEF Pass
<1>10. CASE Leave(t)
  BY <1>10 DEF Leave
<1>11. CASE Release(t)
  <2>1. pc' = pc /\ mutex' = mutex /\ blocking_on' = blocking_on
    BY <1>11, ReleaseNoError DEF Release
  <2> QED BY <2>1
<1> QED BY <1>1, <1>2, <1>3, <1>4, <1>5, <1>6, <1>7, <1>8, <1>9, <1>10, <1>11 DEF Step, Proceed

\* Inside the mutex of a lock nobody else takes it or gives it up.
LEMMA StepFoundOwned ==
  ASSUME IInv, NEW t \in Threads, Step(t)
  PROVE  FoundOwned'
<1> USE ModuleLockAssumption DEF Goto, fields, reading
<1>0. /\ pc \in [Threads -> Places] /\ blocking_on \in [Threads -> Locks \cup {None}]
      /\ owner \in [Locks -> Threads \cup {None}] /\ seen \in [Threads -> Locks \cup {None}]
      /\ \A u \in Threads : pc[u] \in {"walk", "hop", "register"} =>
           /\ blocking_on[u] \in Locks /\ mutex[blocking_on[u]] = u
           /\ owner[blocking_on[u]] \notin {None, u}
      /\ \A u \in Threads : pc[u] = "hop" => seen[u] # None
  BY WantedLock DEF IInv, LockSound, TypeOK, FoundOwned, Wanted
<1> SUFFICES ASSUME NEW u \in Threads
             PROVE  /\ pc'[u] \in {"walk", "hop", "register"} =>
                         owner'[blocking_on'[u]] \notin {None, u}
                    /\ pc'[u] = "hop" => seen'[u] # None
  BY DEF FoundOwned, Wanted
<1>1. CASE Take(t)
  <2>1. blocking_on[t] \in Locks /\ mutex[blocking_on[t]] = t
    BY <1>1, WantedLock DEF Take, Wanted
  <2> QED BY <1>0, <1>1, <2>1 DEF Take, Wanted
<1>2. CASE Release(t)
  <2> DEFINE l == Head(stack[t])
  <2>1. l \in Locks /\ mutex[l] = None /\ \A m \in Locks : m # l => owner'[m] = owner[m]
    BY <1>0, <1>2, StackIsOwned DEF Release
  <2>2. pc' = pc /\ blocking_on' = blocking_on /\ seen' = seen
    BY <1>2, ReleaseNoError DEF Release
  <2> QED BY <1>0, <2>1, <2>2
<1>3. CASE StartWalk(t)
  <2>1. blocking_on[t] \in Locks
    BY <1>3, WantedLock DEF StartWalk, Wanted
  <2>2. owner[blocking_on[t]] \notin {None, t}
    BY <1>3, <2>1 DEF StartWalk, Wanted, IInv, LockSound, OwnerHolds
  <2> QED BY <1>0, <1>3, <2>1, <2>2 DEF StartWalk
<1>4. CASE Leave(t)
  BY <1>0, <1>4 DEF Leave
<1>5. CASE Walk(t)
  BY <1>0, <1>5 DEF Walk
<1>6. CASE Hop(t)
  BY <1>0, <1>6 DEF Hop
<1>7. CASE (\E l \in Locks : Announce(t, l)) \/ Enter(t) \/ Register(t) \/ Wake(t) \/ Pass(t)
  <2>1. owner' = owner /\ seen' = seen
        /\ pc'[t] \notin {"walk", "hop", "register"}
        /\ (u # t => pc'[u] = pc[u] /\ blocking_on'[u] = blocking_on[u])
    BY <1>0, <1>7 DEF Announce, Enter, Register, Wake, Pass
  <2> QED BY <1>0, <2>1
<1> QED BY <1>1, <1>2, <1>3, <1>4, <1>5, <1>6, <1>7 DEF Step, Proceed

\* wakeup goes from nobody to the owner or to one sleeper, and back.
LEMMA StepWakeupHeld ==
  ASSUME IInv, NEW t \in Threads, Step(t)
  PROVE  WakeupHeld'
<1> USE ModuleLockAssumption DEF Goto, fields, reading
<1> DEFINE Passes(u, l) == pc[u] = "pass" /\ blocking_on[u] = l
<1>0. /\ pc \in [Threads -> Places] /\ blocking_on \in [Threads -> Locks \cup {None}]
      /\ owner \in [Locks -> Threads \cup {None}] /\ waiters \in [Locks -> 0..1]
      /\ wakeup \in [Locks -> BOOLEAN]
      /\ \A l \in Locks :
           /\ wakeup[l] <=> waiters[l] = 1 \/ \E u \in Threads : Passes(u, l)
           /\ waiters[l] = 1 => owner[l] # None /\ \A u \in Threads : ~Passes(u, l)
           /\ \A u, v \in Threads : Passes(u, l) /\ Passes(v, l) => u = v
  BY DEF IInv, LockSound, TypeOK, WakeupHeld, Wanted
<1> SUFFICES ASSUME NEW l \in Locks
             PROVE  /\ wakeup'[l] <=> waiters'[l] = 1 \/ \E u \in Threads : Passes(u, l)'
                    /\ waiters'[l] = 1 => owner'[l] # None /\ \A u \in Threads : ~Passes(u, l)'
                    /\ \A u, v \in Threads : Passes(u, l)' /\ Passes(v, l)' => u = v
  BY DEF WakeupHeld, Wanted
<1>1. CASE Register(t)
  <2>1. blocking_on[t] \in Locks /\ owner[blocking_on[t]] # None
    BY <1>1, WantedLock DEF Register, Wanted, IInv, FoundOwned
  <2>2. \A u \in Threads : Passes(u, l)' <=> Passes(u, l)
    BY <1>0, <1>1 DEF Register
  <2> HIDE DEF Passes
  <2> QED BY <1>0, <1>1, <2>1, <2>2 DEF Register, Wanted
<1>2. CASE Wake(t)
  <2> DEFINE w == blocking_on[t]
  <2>1. w \in Locks /\ ~wakeup[w]
    BY <1>2, WantedLock DEF Wake, Wanted
  <2>2. \A u \in Threads : Passes(u, l)' <=> Passes(u, l) \/ (u = t /\ w = l)
    BY <1>0, <1>2 DEF Wake
  <2>3. wakeup' = [wakeup EXCEPT ![w] = TRUE] /\ waiters' = waiters /\ owner' = owner
    BY <1>2 DEF Wake, Wanted
  <2> HIDE DEF Passes, w
  <2> QED BY <1>0, <2>1, <2>2, <2>3
<1>3. CASE Pass(t)
  <2> DEFINE w == blocking_on[t]
  <2>1. w \in Locks /\ Passes(t, w)
    BY <1>3, WantedLock DEF Pass, Wanted
  <2>2. \A u \in Threads : Passes(u, l)' <=> Passes(u, l) /\ u # t
    BY <1>0, <1>3 DEF Pass
  <2>3. wakeup' = [wakeup EXCEPT ![w] = FALSE] /\ waiters' = waiters /\ owner' = owner
    BY <1>3 DEF Pass, Wanted
  <2>4. w # l => ~Passes(t, l)
    OBVIOUS
  <2> HIDE DEF Passes, w
  <2> QED BY <1>0, <2>1, <2>2, <2>3, <2>4
<1>4. CASE Release(t)
  <2> DEFINE h == Head(stack[t])
  <2>1. h \in Locks /\ (waiters[h] > 0 => wakeup[h]) /\ count[h] \in Nat \ {0}
    BY <1>4, StackIsOwned, ReleaseNoError DEF Release
  <2>2. \A u \in Threads : Passes(u, l)' <=> Passes(u, l)
    BY <1>4, ReleaseNoError DEF Release
  <2>3. waiters[h] \in 0..1
    BY <1>0, <2>1
  <2>4. CASE l = h /\ count[h] = 1 /\ waiters[h] = 1
    <3>1. waiters'[h] = 0
      BY <1>0, <1>4, <2>1, <2>4 DEF Release
    <3>2. wakeup'[h] = FALSE
      BY <1>0, <1>4, <2>1, <2>4 DEF Release
    <3> HIDE DEF Passes, h
    <3> QED BY <1>0, <2>1, <2>2, <2>4, <3>1, <3>2
  <2>5. CASE ~(l = h /\ count[h] = 1 /\ waiters[h] = 1)
    <3>1. waiters'[l] = waiters[l]
      BY <1>0, <1>4, <2>1, <2>3, <2>5 DEF Release
    <3>2. wakeup'[l] <=> wakeup[l]
      <4>1. wakeup' = [wakeup EXCEPT ![h] = IF count[h] = 1 /\ waiters[h] > 0 THEN FALSE ELSE @]
        BY <1>4 DEF Release
      <4> HIDE DEF Passes, h
      <4>2. CASE l # h
        BY <1>0, <4>1, <4>2
      <4>3. CASE ~(count[h] = 1 /\ waiters[h] > 0)
        BY <1>0, <4>1, <4>3
      <4> QED BY <4>2, <4>3, <2>3, <2>5
    <3>3. waiters[l] = 1 => owner'[l] = owner[l]
      BY <1>0, <1>4, <2>1, <2>3, <2>5 DEF Release
    <3> HIDE DEF Passes, h
    <3> QED BY <1>0, <2>2, <3>1, <3>2, <3>3
  <2> QED BY <2>4, <2>5
<1>5. CASE Take(t)
  <2>1. blocking_on[t] \in Locks
    BY <1>5, WantedLock DEF Take, Wanted
  <2>2. \A u \in Threads : Passes(u, l)' <=> Passes(u, l)
    BY <1>0, <1>5 DEF Take
  <2> HIDE DEF Passes
  <2> QED BY <1>0, <1>5, <2>1, <2>2 DEF Take, Wanted
<1>6. CASE \/ \E m \in Locks : Announce(t, m)
           \/ Enter(t) \/ StartWalk(t) \/ Walk(t) \/ Hop(t) \/ Leave(t)
  <2>1. owner' = owner /\ waiters' = waiters /\ wakeup' = wakeup
        /\ \A u \in Threads : Passes(u, l)' <=> Passes(u, l)
    BY <1>0, <1>6 DEF Announce, Enter, StartWalk, Walk, Hop, Leave
  <2> HIDE DEF Passes
  <2> QED BY <1>0, <2>1
<1> QED BY <1>1, <1>2, <1>3, <1>4, <1>5, <1>6 DEF Step, Proceed

LEMMA StepSleeperWillWake ==
  ASSUME IInv, NEW t \in Threads, Step(t), WakeupHeld'
  PROVE  SleeperWillWake'
<1>1. ASSUME NEW u \in Threads PROVE pc'[u] # "error"
  <2>1. pc[u] # "error" /\ pc \in [Threads -> Places]
    BY DEF IInv, LockSound, TypeOK, SleeperWillWake
  <2>2. CASE Pass(t)
    <3>1. wakeup[Wanted(t)]
      BY <2>2, WantedLock DEF Pass, IInv, WakeupHeld
    <3> QED BY <2>1, <2>2, <3>1 DEF Pass, Goto
  <2>3. CASE Release(t)
    BY <2>1, <2>3, ReleaseNoError
  <2>4. CASE ~(Pass(t) \/ Release(t))
    BY <2>1, <2>4 DEF Step, Proceed, Goto, Announce, Enter, Take, StartWalk, Walk, Hop,
                      Register, Wake, Leave
  <2> QED BY <2>2, <2>3, <2>4
<1>2. ASSUME NEW l \in Locks, wakeup'[l]
      PROVE  \/ waiters'[l] = 1 /\ owner'[l] # None
             \/ \E u \in Threads : pc'[u] = "pass" /\ Wanted(u)' = l
  BY <1>2 DEF WakeupHeld
<1> QED BY <1>1, <1>2 DEF SleeperWillWake

\* What a walk has read of a thread that waits for the walker's lock stands until
\* that thread is refused: it cannot be given the lock meanwhile.
LEMMA StepLastLinkStands ==
  ASSUME IInv, NEW t \in Threads, Step(t)
  PROVE  LastLinkStands'
<1> USE DEF Goto, fields, reading
<1>0. /\ pc \in [Threads -> Places] /\ blocking_on \in [Threads -> Locks \cup {None}]
      /\ owner \in [Locks -> Threads \cup {None}] /\ seen \in [Threads -> Locks \cup {None}]
      /\ tid \in [Threads -> Threads \cup {None}] /\ withdrew \in [Threads -> SUBSET Threads]
      /\ None \notin Threads /\ None \notin Locks
      /\ \A u \in Threads : pc[u] \in {"walk", "hop"} =>
           /\ tid[u] # u
           /\ pc[u] = "hop" /\ owner[seen[u]] = u =>
                tid[u] \in Threads /\ (blocking_on[tid[u]] = seen[u] \/ tid[u] \in withdrew[u])
      /\ \A u \in Threads : pc[u] = "hop" => seen[u] \in Locks
  BY ModuleLockAssumption DEF IInv, LockSound, TypeOK, LastLinkStands, FoundOwned, Wanted
<1> SUFFICES ASSUME NEW u \in Threads, pc'[u] \in {"walk", "hop"}
             PROVE  /\ tid'[u] # u
                    /\ pc'[u] = "hop" /\ owner'[seen'[u]] = u =>
                         /\ tid'[u] \in Threads
                         /\ blocking_on'[tid'[u]] = seen'[u] \/ tid'[u] \in withdrew'[u]
  BY DEF LastLinkStands, Wanted
<1>1. CASE u = t
  <2>1. CASE StartWalk(t)
    BY <1>0, <1>1, <2>1 DEF StartWalk
  <2>2. CASE Walk(t)
    <3>1. pc[t] = "walk" /\ tid' = tid /\ blocking_on' = blocking_on
      BY <2>2 DEF Walk
    <3>2. pc'[t] = "hop" => tid[t] # None /\ seen'[t] = blocking_on[tid[t]]
      BY <1>0, <2>2 DEF Walk
    <3> QED BY <1>0, <1>1, <3>1, <3>2
  <2>3. CASE Hop(t)
    <3>1. tid'[t] = owner[seen[t]] /\ pc'[t] = IF owner[seen[t]] = t THEN "refused" ELSE "walk"
      BY <1>0, <2>3 DEF Hop
    <3> QED BY <1>1, <3>1
  <2>4. CASE ~(StartWalk(t) \/ Walk(t) \/ Hop(t))
    <3>1. CASE Release(t)
      BY <1>0, <1>1, <3>1, ReleaseNoError DEF Release
    <3>2. CASE \/ \E l \in Locks : Announce(t, l)
               \/ Enter(t) \/ Take(t) \/ Register(t) \/ Wake(t) \/ Pass(t) \/ Leave(t)
      <4>1. pc'[t] \notin {"walk", "hop"}
        BY <1>0, <3>2 DEF Announce, Enter, Take, Register, Wake, Pass, Leave
      <4> QED BY <1>1, <4>1
    <3> QED BY <2>4, <3>1, <3>2 DEF Step, Proceed
  <2> QED BY <2>1, <2>2, <2>3, <2>4
<1>2. CASE u # t
  <2>1. pc'[u] = pc[u] /\ tid'[u] = tid[u] /\ seen'[u] = seen[u]
    <3>1. pc'[u] = pc[u]
      BY <1>0, <1>2 DEF Step, Proceed, Announce, Enter, Take, StartWalk, Walk, Hop, Register,
                        Wake, Pass, Leave, Release
    <3>2. tid'[u] = tid[u]
      BY <1>0, <1>2 DEF Step, Proceed, Announce, Enter, Take, StartWalk, Walk, Hop, Register,
                        Wake, Pass, Leave, Release
    <3>3. seen'[u] = seen[u]
      <4>1. CASE Walk(t)
        BY <1>0, <1>2, <4>1 DEF Walk
      <4>2. CASE Leave(t)
        BY <1>0, <1>2, <4>2 DEF Leave
      <4>3. CASE ~(Walk(t) \/ Leave(t))
        BY <4>3 DEF Step, Proceed, Announce, Enter, Take, StartWalk, Hop, Register, Wake, Pass,
                    Release
      <4> QED BY <4>1, <4>2, <4>3
    <3> QED BY <3>1, <3>2, <3>3
  <2> SUFFICES ASSUME pc[u] = "hop", owner'[seen[u]] = u
               PROVE  /\ tid[u] \in Threads
                      /\ blocking_on'[tid[u]] = seen[u] \/ tid[u] \in withdrew'[u]
    BY <1>0, <2>1
  <2>2. owner[seen[u]] = u
    <3>1. CASE Take(t)
      BY <1>0, <1>2, <3>1, WantedLock DEF Take
    <3>2. CASE Release(t)
      BY <1>0, <1>2, <3>2, StackIsOwned DEF Release
    <3>3. CASE ~(Take(t) \/ Release(t))
      BY <3>3 DEF Step, Proceed, Announce, Enter, StartWalk, Walk, Hop, Register, Wake, Pass, Leave
    <3> QED BY <3>1, <3>2, <3>3
  <2>3. tid[u] \in Threads /\ (blocking_on[tid[u]] = seen[u] \/ tid[u] \in withdrew[u])
    BY <1>0, <2>2
  <2>4. CASE Leave(t)
    <3>1. /\ blocking_on' = [blocking_on EXCEPT ![t] = None]
          /\ withdrew'[u] = IF pc[t] = "refused" THEN withdrew[u] \cup {t} ELSE withdrew[u]
      BY <1>0, <1>2, <2>4 DEF Leave
    <3>2. CASE tid[u] = t /\ pc[t] = "got" /\ blocking_on[t] = seen[u]
      <4>1. seen[u] \in Locks /\ owner[seen[u]] = u /\ Depth(seen[u], stack[t]) \in Nat
        BY <1>0, <2>2, DepthIsNat DEF IInv, LockSound, TypeOK
      <4>2. (IF owner[seen[u]] = t THEN count[seen[u]] ELSE 0) = Depth(seen[u], stack[t]) + 1
        BY <3>2, <4>1 DEF IInv, LockSound, OwnerHolds, Wanted
      <4> QED BY <1>2, <4>1, <4>2
    <3>3. CASE ~(tid[u] = t /\ pc[t] = "got" /\ blocking_on[t] = seen[u])
      BY <1>0, <2>3, <2>4, <3>1, <3>3 DEF Leave
    <3> QED BY <3>2, <3>3
  <2>5. CASE ~Leave(t)
    <3>1. withdrew'[u] = withdrew[u]
      BY <1>0, <1>2, <2>5 DEF Step, Proceed, Announce, Enter, Take, StartWalk, Walk, Hop, Register,
                              Wake, Pass, Release
    <3>2. CASE \E l \in Locks : Announce(t, l)
      <4>1. blocking_on[t] = None
        BY <3>2 DEF Announce, IInv, InAcquire
      <4> QED BY <1>0, <2>3, <3>1, <3>2, <4>1 DEF Announce
    <3>3. CASE ~\E l \in Locks : Announce(t, l)
      BY <2>3, <2>5, <3>1, <3>3 DEF Step, Proceed, Enter, Take, StartWalk, Walk, Hop, Register,
                                    Wake, Pass, Release
    <3> QED BY <3>2, <3>3
  <2> QED BY <2>4, <2>5
<1> QED BY <1>1, <1>2

\* A circle of waiting threads is closed by an announcement only, and by one
\* who will look; the walk of one in a circle stays among its threads.
LEMMA StepSomebodyLooks ==
  ASSUME IInv, NEW t \in Threads, Step(t)
  PROVE  SomebodyLooks'
<1> USE DEF Goto, fields, reading
<1>0. /\ pc \in [Threads -> Places] /\ blocking_on \in [Threads -> Locks \cup {None}]
      /\ owner \in [Locks -> Threads \cup {None}] /\ seen \in [Threads -> Locks \cup {None}]
      /\ tid \in [Threads -> Threads \cup {None}] /\ None \notin Threads
      /\ \A u \in Waiting : u \in Threads /\ blocking_on[u] \in Locks
  BY ModuleLockAssumption, WantedLock DEF IInv, LockSound, TypeOK, Waiting, Wanted
<1> SUFFICES ASSUME NEW S \in SUBSET Waiting', S # {},
                    \A u \in S : owner'[blocking_on'[u]] \in S
             PROVE  \E u \in S : Looks(u, S)'
  BY DEF SomebodyLooks, Wanted
<1>1. \A u \in S : u \in Threads /\ pc'[u] \notin {"start", "got", "refused", "error"}
  BY DEF Waiting
<1>2. ASSUME NEW l \in Locks, Announce(t, l)
      PROVE  \E u \in S : Looks(u, S)'
  <2>1. CASE t \in S
    BY <1>0, <1>2, <2>1 DEF Announce, Looks
  <2>2. CASE t \notin S
    <3>1. /\ owner' = owner /\ tid' = tid /\ seen' = seen
          /\ \A u \in S : pc'[u] = pc[u] /\ blocking_on'[u] = blocking_on[u]
      BY <1>0, <1>1, <1>2, <2>2 DEF Announce
    <3>2. S \in SUBSET Waiting
      BY <1>1, <3>1 DEF Waiting
    <3>3. PICK u \in S : Looks(u, S)
      BY <3>1, <3>2 DEF IInv, SomebodyLooks, Wanted
    <3>4. tid[u] \in S => blocking_on'[tid[u]] = blocking_on[tid[u]]
      BY <3>1
    <3> QED BY <3>1, <3>3, <3>4 DEF Looks
  <2> QED BY <2>1, <2>2
<1>3. CASE Leave(t)
  <2>1. t \notin S
    BY <1>0, <1>1, <1>3 DEF Leave
  <2>2. /\ owner' = owner
        /\ \A u \in S : /\ pc'[u] = pc[u] /\ blocking_on'[u] = blocking_on[u]
                        /\ tid'[u] = tid[u] /\ seen'[u] = seen[u]
    BY <1>0, <1>1, <1>3, <2>1 DEF Leave
  <2>3. S \in SUBSET Waiting
    BY <1>1, <2>2 DEF Waiting
  <2>4. PICK u \in S : Looks(u, S)
    BY <2>2, <2>3 DEF IInv, SomebodyLooks, Wanted
  <2>5. tid[u] \in S => blocking_on'[tid[u]] = blocking_on[tid[u]]
    BY <2>2
  <2> QED BY <2>2, <2>4, <2>5 DEF Looks
<1>4. CASE Take(t) \/ Release(t)
  <2>1. t \notin S
    BY <1>0, <1>1, <1>4, ReleaseNoError DEF Take, Release
  <2>2. /\ blocking_on' = blocking_on /\ tid' = tid /\ seen' = seen
        /\ \A u \in S : pc'[u] = pc[u]
    BY <1>0, <1>1, <1>4, <2>1, ReleaseNoError DEF Take, Release
  <2>3. S \in SUBSET Waiting
    BY <1>1, <2>2 DEF Waiting
  <2>4. \A l \in Locks : owner'[l] = owner[l] \/ owner'[l] \in {None, t}
    <3>1. CASE Take(t)
      BY <1>0, <3>1 DEF Take
    <3>2. CASE Release(t)
      BY <1>0, <3>2 DEF Release
    <3> QED BY <1>4, <3>1, <3>2
  <2>5. \A u \in S : owner[blocking_on[u]] \in S
    BY <1>0, <1>1, <2>1, <2>2, <2>3, <2>4
  <2>6. PICK u \in S : Looks(u, S)
    BY <2>3, <2>5 DEF IInv, SomebodyLooks, Wanted
  <2> QED BY <2>2, <2>6 DEF Looks
<1>5. CASE \/ Enter(t) \/ StartWalk(t) \/ Walk(t) \/ Hop(t)
           \/ Register(t) \/ Wake(t) \/ Pass(t)
  <2>1. owner' = owner /\ blocking_on' = blocking_on /\ \A u \in S : u # t => pc'[u] = pc[u]
    BY <1>0, <1>1, <1>5 DEF Enter, StartWalk, Walk, Hop, Register, Wake, Pass
  <2>2. t \in Waiting
    BY <1>5 DEF Waiting, Enter, StartWalk, Walk, Hop, Register, Wake, Pass
  <2>3. S \in SUBSET Waiting
    BY <1>1, <2>1, <2>2 DEF Waiting
  <2>4. \A u \in S : owner[blocking_on[u]] \in S
    BY <2>1
  <2>5. PICK u \in S : Looks(u, S)
    BY <2>3, <2>4 DEF IInv, SomebodyLooks, Wanted
  <2>6. CASE u # t
    <3>1. pc'[u] = pc[u] /\ tid'[u] = tid[u] /\ seen'[u] = seen[u]
      BY <1>0, <1>1, <1>5, <2>6 DEF Enter, StartWalk, Walk, Hop, Register, Wake, Pass
    <3> QED BY <2>1, <2>5, <3>1 DEF Looks
  <2>7. CASE u = t
    <3>1. CASE Enter(t)
      BY <1>0, <2>7, <3>1 DEF Enter, Looks
    <3>2. CASE StartWalk(t)
      BY <1>0, <2>4, <2>7, <3>2 DEF StartWalk, Looks, Wanted
    <3>3. CASE Walk(t)
      <4>1. tid[t] \in S /\ blocking_on[tid[t]] \in Locks
        BY <1>0, <2>3, <2>5, <2>7, <3>3 DEF Walk, Looks
      <4> QED BY <1>0, <1>1, <2>1, <2>7, <3>3, <4>1, ModuleLockAssumption DEF Walk, Looks
    <3>4. CASE Hop(t)
      <4>1. tid[t] \in S /\ owner[seen[t]] \in S
        BY <2>4, <2>5, <2>7, <3>4 DEF Hop, Looks
      <4>2. owner[seen[t]] # t
        BY <1>0, <1>1, <2>7, <3>4 DEF Hop
      <4> QED BY <1>0, <2>7, <3>4, <4>1, <4>2 DEF Hop, Looks
    <3>5. CASE Register(t) \/ Wake(t) \/ Pass(t)
      BY <2>5, <2>7, <3>5 DEF Register, Wake, Pass, Looks
    <3> QED BY <1>5, <3>1, <3>2, <3>3, <3>4, <3>5
  <2> QED BY <2>6, <2>7
<1> QED BY <1>2, <1>3, <1>4, <1>5 DEF Step, Proceed

LEMMA NextIInv == IInv /\ [Next]_vars => IInv'
<1> SUFFICES ASSUME IInv, [Next]_vars PROVE IInv'
  OBVIOUS
<1>1. ASSUME NEW t \in Threads, Step(t) PROVE IInv'
  BY <1>1, StepTypes, StepOwnerHolds, StepInAcquire, StepFoundOwned, StepWakeupHeld,
     StepSleeperWillWake, StepLastLinkStands, StepSomebodyLooks DEF IInv, LockSound
<1>2. CASE UNCHANGED vars
  <2> USE <1>2 DEF vars, fields, IInv, LockSound
  <2>1. TypeOK'
    BY DEF TypeOK
  <2>2. OwnerHolds'
    BY DEF OwnerHolds, Depth, Wanted
  <2>3. SleeperWillWake' /\ LastLinkStands' /\ InAcquire' /\ FoundOwned'
    BY DEF SleeperWillWake, LastLinkStands, InAcquire, FoundOwned, Wanted
  <2>4. WakeupHeld'
    BY DEF WakeupHeld, Wanted
  <2>5. SomebodyLooks'
    BY DEF SomebodyLooks, Waiting, Looks, Wanted
  <2> QED BY <2>1, <2>2, <2>3, <2>4, <2>5
<1> QED BY <1>1, <1>2 DEF Next, Finished

-----------------------------------------------------------------------------
(* The theorems.                                                           *)

\* The inductive invariant holds in every reachable state.
THEOREM Invariance == Spec => []IInv
BY InitIInv, NextIInv, PTL DEF Spec

\* _ModuleLock: owners, counts and the wake-up locks are right whatever threads
\* nest acquire() and release(); wakeup.release() never raises.
THEOREM LocksAreSound == Spec => []LockSound
<1>1. IInv => LockSound
  BY DEF IInv
<1> QED BY <1>1, Invariance, PTL

\* has_deadlock() refuses a thread only between two others, or between one and
\* the same: one has what it wants, and one wants what it has, unless that one
\* was refused in the meantime.
THEOREM RefusalsAreRight == Spec => RefusedBetween
<1> DEFINE Refused(t) ==
      pc[t] = "hop" /\ pc'[t] = "refused" =>
        /\ owner[Wanted(t)] \notin {None, t}
        /\ owner[seen[t]] = t
        /\ tid[t] # t
        /\ Wanted(tid[t]) = seen[t] \/ tid[t] \in withdrew[t]
<1>1. ASSUME IInv, [Next]_vars, NEW t \in Threads PROVE Refused(t)
  <2> SUFFICES ASSUME pc[t] = "hop", pc'[t] = "refused" PROVE Refused(t)
    OBVIOUS
  <2>1. Step(t)
    <3>1. pc \in [Threads -> Places]
      BY <1>1 DEF IInv, LockSound, TypeOK
    <3>2. PICK u \in Threads : Step(u)
      BY <1>1 DEF Next, Finished, vars
    <3>3. u # t => pc'[t] = pc[t]
      BY <3>1, <3>2 DEF Step, Proceed, Goto, Announce, Enter, Take, StartWalk, Walk, Hop,
                        Register, Wake, Pass, Leave, Release
    <3> QED BY <3>2, <3>3
  <2>2. Hop(t)
    BY <2>1 DEF Step, Proceed, Announce, Enter, Take, StartWalk, Walk, Register, Wake, Pass,
                Leave, Release
  <2>3. owner[seen[t]] = t
    BY <1>1, <2>2 DEF Hop, Goto, IInv, LockSound, TypeOK
  <2> QED BY <1>1, <2>3 DEF IInv, FoundOwned, LastLinkStands
<1>2. IInv /\ [Next]_vars => \A t \in Threads : Refused(t)
  BY <1>1
<1>3. Spec => [][\A t \in Threads : Refused(t)]_vars
  BY <1>2, Invariance, PTL DEF Spec
<1> QED BY <1>3 DEF RefusedBetween

\* Deadlock detection by has_deadlock() is complete: no circle of threads that
\* sleep on each other's locks ever forms.
THEOREM NoDeadlock == Spec => []NoCircle
<1>1. IInv => NoCircle
  <2> SUFFICES ASSUME IInv, NEW S \in SUBSET {t \in Threads : pc[t] = "sleep"}, S # {},
                      \A t \in S : owner[Wanted(t)] \in S
               PROVE  FALSE
    BY DEF NoCircle
  <2>1. S \in SUBSET Waiting
    BY DEF Waiting
  <2>2. \E t \in S : Looks(t, S)
    BY <2>1 DEF IInv, SomebodyLooks
  <2> QED BY <2>2 DEF Looks
<1> QED BY <1>1, Invariance, PTL
=============================================================================

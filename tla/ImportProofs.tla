---------------------------- MODULE ImportProofs ----------------------------
(***************************************************************************)
(* Theorems about the import procedure, for any threads, modules, programs *)
(* and any supply of lock objects, an endless one too.                     *)
(*                                                                         *)
(* The invariant ties the table of locks to the frames of all stacks (one  *)
(* name per lock, and no more than one lock that somebody loads under) and *)
(* orders every stack: whoever is imported inside another import is needed *)
(* by it.  Where modules do not need each other in a circle this keeps     *)
(* threads from waiting in a circle, so nobody is ever refused a lock.     *)
(***************************************************************************)
EXTENDS ImportLocks, SequenceTheorems, FiniteSetTheorems, TLAPS

-----------------------------------------------------------------------------
(* The inductive invariant.                                                *)

Waiting == {"acquire", "asleep"}
Entered == {"find", "recheck", "spec", "body", "ran", "raise", "unlock"}

\* The modules that a module cannot be loaded without: its package, what its body
\* imports, and what these cannot be loaded without.
Uses(n) == {program.imports[n], program.parent[n]} \cap Names
Closed(C) == \A n \in C : Uses(n) \subseteq C
Needs(n) == {m \in Names : \A C \in SUBSET Names : Uses(n) \subseteq C /\ Closed(C) => m \in C}

\* What a frame says of itself.
FrameSound(f) ==
  /\ f.lock \in LockIds <=> f.at \in Waiting \cup Entered
  /\ f.at \in Entered \ {"unlock"} => f.loads
  /\ f.module <= Len(status[f.name])
  /\ f.at \in {"body", "ran", "raise"} => f.module # 0
  /\ f.at = "recheck" => program.parent[f.name] \in Names

\* An import inside another one is for a module which the outer one needs.
StacksSound ==
  \A t \in Threads : \A i \in 1..Len(stack[t]) :
    /\ FrameSound(stack[t][i])
    /\ i > 1 => stack[t][i].at \in {"recheck", "ran"}
    /\ \A j \in 1..Len(stack[t]) : i < j => stack[t][i].name \in Needs(stack[t][j].name)

\* A look-up runs under the import lock.
LookupsLocked ==
  /\ holder = None <=> level = 0
  /\ \A t \in Threads : At(t, "fetch") \/ At(t, "load") \/ At(t, "wait") => holder = t

\* A lock belongs to one name, in the table and in all frames.
LocksNamed ==
  \A t \in Threads : \A i \in 1..Len(stack[t]) :
    LET f == stack[t][i] IN
    f.lock \in LockIds =>
      /\ \A n \in Names : locks[n] = f.lock => f.name = n
      /\ \A u \in Threads : \A j \in 1..Len(stack[u]) :
           stack[u][j].lock = f.lock => stack[u][j].name = f.name

\* The frames of a stack that have acquired a lock, and how the owner and count
\* of each lock agree with them.
Holds(s, l) == {i \in DOMAIN s : s[i].lock = l /\ s[i].at \notin Waiting}

LocksCounted ==
  \A l \in LockIds :
    /\ owner[l] = None <=> count[l] = 0
    /\ \A t \in Threads :
         (IF owner[l] = t THEN count[l] ELSE 0) = Cardinality(Holds(stack[t], l))

\* In a straight program: what an import knows of sys.modules and of its module.
StraightFrame(t, i) ==
  LET f == stack[t][i]
      p == program.parent[f.name] IN
  /\ f.at # "raise"
  /\ f.at = "fetch" => sys_modules[f.name] # 0
  /\ f.at = "load" => sys_modules[f.name] = 0
  /\ f.module # 0 => sys_modules[f.name] # 0
  /\ f.at \in {"wait", "callback", "return", "unlock"} => f.module # 0
  /\ f.at \in Waiting => f.loads \/ f.module # 0
  /\ f.at \in {"unlock", "callback", "return"} => status[f.name][f.module] = "complete"
  /\ f.at \in {"spec", "body", "ran"} => p = None \/ sys_modules[p] # 0
  /\ f.at = "recheck" => IF i = 1 THEN sys_modules[p] # 0 ELSE stack[t][i-1].name = p

\* In a straight program: whoever loads a module has the lock in the table, and so
\* has everybody who imports that module; no callback is about to delete the entry.
LoadersLock ==
  \A t \in Threads : \A i \in 1..Len(stack[t]) :
    LET f == stack[t][i] IN
    f.loads /\ f.lock \in LockIds =>
      /\ locks[f.name] = f.lock
      /\ \A u \in Threads : \A j \in 1..Len(stack[u]) :
           stack[u][j].name = f.name =>
             /\ stack[u][j].at # "callback"
             /\ stack[u][j].lock \in LockIds => stack[u][j].lock = f.lock

\* In a straight program: a module that is not complete is being executed.
ModulesRun ==
  \A n \in Names : \A k \in 1..Len(status[n]) :
    \/ status[n][k] = "complete"
    \/ \E t \in Threads : \E i \in 1..Len(stack[t]) :
         LET f == stack[t][i] IN f.name = n /\ f.module = k /\ f.at \in {"body", "ran"}

StraightFrames == \A t \in Threads : \A i \in 1..Len(stack[t]) : StraightFrame(t, i)

StraightSound ==
  /\ ImportLockFree
  /\ StraightFrames
  /\ LoadersLock
  /\ ModulesRun

IInv ==
  /\ TypeOK /\ LookupsLocked /\ StacksSound /\ LocksNamed /\ LocksCounted /\ NoStaleEntry
  /\ Straight => StraightSound

-----------------------------------------------------------------------------
(* Stacks of frames.                                                       *)

\* What a sequence is, and what happens to one whose first element changes, goes,
\* or gets another on top.
LEMMA StackType ==
  ASSUME NEW S, NEW s \in Seq(S)
  PROVE  /\ Len(s) \in Nat /\ DOMAIN s = 1..Len(s)
         /\ \A i \in 1..Len(s) : s[i] \in S
         /\ s # <<>> <=> Len(s) >= 1
         /\ s # <<>> => Head(s) = s[1] /\ Head(s) \in S /\ 1 \in 1..Len(s)
BY LenProperties, EmptySeq, HeadTailProperties

LEMMA HeadChanges ==
  ASSUME NEW S, NEW s \in Seq(S), s # <<>>, NEW g \in S,
         NEW r, r = [s EXCEPT ![1] = g]
  PROVE  /\ r \in Seq(S) /\ r # <<>> /\ Len(r) = Len(s)
         /\ r[1] = g /\ Head(r) = g
         /\ \A i \in 1..Len(s) : i # 1 => r[i] = s[i]
<1>1. 1 \in 1..Len(s) /\ Len(s) \in Nat
  BY StackType
<1>2. /\ r \in Seq(S) /\ Len(r) = Len(s)
      /\ \A i \in 1..Len(s) : r[i] = IF i = 1 THEN g ELSE s[i]
  BY <1>1, ExceptSeq
<1>3. r # <<>>
  BY <1>1, <1>2, StackType
<1> QED BY <1>1, <1>2, <1>3, StackType

LEMMA TopIsPopped ==
  ASSUME NEW S, NEW s \in Seq(S), s # <<>>, NEW r, r = Tail(s)
  PROVE  /\ r \in Seq(S) /\ Len(r) = Len(s) - 1
         /\ \A i \in 1..Len(r) : r[i] = s[i + 1] /\ i + 1 \in 1..Len(s)
<1>1. /\ r \in Seq(S) /\ Len(r) = Len(s) - 1
      /\ \A i \in 1..Len(r) : r[i] = s[i + 1]
      /\ Len(s) \in Nat
  BY HeadTailProperties, StackType
<1> QED BY <1>1

LEMMA TwoOnTop ==
  ASSUME NEW S, NEW s \in Seq(S), s # <<>>, NEW f \in S, NEW g \in S,
         NEW r, r = <<f, g>> \o Tail(s)
  PROVE  /\ r \in Seq(S) /\ Len(r) = Len(s) + 1 /\ r # <<>>
         /\ r[1] = f /\ r[2] = g /\ Head(r) = f
         /\ \A i \in 1..Len(s) : i # 1 => r[i + 1] = s[i]
<1> DEFINE two == <<f, g>>
           rest == Tail(s)
<1>1. two \in Seq(S) /\ Len(two) = 2 /\ two[1] = f /\ two[2] = g
  OBVIOUS
<1>2. /\ rest \in Seq(S) /\ Len(rest) = Len(s) - 1 /\ Len(s) \in Nat
      /\ Len(s) >= 1
      /\ \A i \in 1..Len(rest) : rest[i] = s[i + 1]
  BY HeadTailProperties, StackType
<1> HIDE DEF two, rest
<1>3. /\ two \o rest \in Seq(S) /\ Len(two \o rest) = Len(two) + Len(rest)
      /\ \A i \in 1..(Len(two) + Len(rest)) :
           (two \o rest)[i] = IF i <= Len(two) THEN two[i] ELSE rest[i - Len(two)]
  BY <1>1, <1>2, ConcatProperties
<1>4. r = two \o rest
  BY DEF two, rest
<1>5. /\ r \in Seq(S) /\ Len(r) = Len(s) + 1
      /\ \A i \in 1..(Len(s) + 1) : r[i] = IF i <= 2 THEN two[i] ELSE rest[i - 2]
  BY <1>1, <1>2, <1>3, <1>4
<1>6. r[1] = f /\ r[2] = g
  BY <1>1, <1>2, <1>5
<1>7. ASSUME NEW i \in 1..Len(s), i # 1 PROVE r[i + 1] = s[i]
  <2>1. i + 1 \in 1..(Len(s) + 1) /\ ~(i + 1 <= 2) /\ (i + 1) - 2 = i - 1
        /\ i - 1 \in 1..Len(rest) /\ (i - 1) + 1 = i
    BY <1>2, <1>7
  <2> QED BY <1>2, <1>5, <2>1
<1>8. r # <<>>
  BY <1>2, <1>5, StackType
<1> QED BY <1>5, <1>6, <1>7, <1>8, StackType

-----------------------------------------------------------------------------
(* How often the frames of a stack hold a lock.                            *)

LEMMA HoldsIsFinite ==
  ASSUME NEW s \in Seq(Frames), NEW l
  PROVE  /\ IsFiniteSet(Holds(s, l)) /\ Holds(s, l) \subseteq 1..Len(s)
         /\ Cardinality(Holds(s, l)) \in Nat
         /\ Cardinality(Holds(s, l)) = 0 <=> Holds(s, l) = {}
<1>1. Holds(s, l) \in SUBSET (1..Len(s)) /\ Len(s) \in Nat
  BY StackType DEF Holds
<1>2. IsFiniteSet(1..Len(s))
  BY <1>1, FS_Interval
<1>3. IsFiniteSet(Holds(s, l))
  BY <1>1, <1>2, FS_Subset
<1> QED BY <1>1, <1>3, FS_CardinalityType, FS_EmptySet

HoldsIt(f, l) == f.lock = l /\ f.at \notin Waiting

\* The innermost import takes or gives up the lock, or does neither.
LEMMA HoldsOfHead ==
  ASSUME NEW s \in Seq(Frames), s # <<>>, NEW g \in Frames, NEW r, r = [s EXCEPT ![1] = g],
         NEW l
  PROVE  LET f == Head(s)
             before == Cardinality(Holds(s, l)) IN
         Cardinality(Holds(r, l)) =
           IF HoldsIt(f, l) THEN IF HoldsIt(g, l) THEN before ELSE before - 1
           ELSE IF HoldsIt(g, l) THEN before + 1 ELSE before
<1>1. /\ r \in Seq(Frames) /\ Len(r) = Len(s) /\ r[1] = g
      /\ \A i \in 1..Len(s) : i # 1 => r[i] = s[i]
  BY HeadChanges
<1>2. /\ DOMAIN s = 1..Len(s) /\ DOMAIN r = 1..Len(s)
      /\ 1 \in 1..Len(s) /\ Head(s) = s[1]
  BY <1>1, StackType
<1>3. Holds(r, l) = IF HoldsIt(g, l) THEN Holds(s, l) \cup {1} ELSE Holds(s, l) \ {1}
  BY <1>1, <1>2 DEF Holds, HoldsIt
<1>4. 1 \in Holds(s, l) <=> HoldsIt(Head(s), l)
  BY <1>2 DEF Holds, HoldsIt
<1>5. IsFiniteSet(Holds(s, l)) /\ Cardinality(Holds(s, l)) \in Nat
  BY HoldsIsFinite
<1>6. /\ Cardinality(Holds(s, l) \cup {1}) =
           IF 1 \in Holds(s, l) THEN Cardinality(Holds(s, l)) ELSE Cardinality(Holds(s, l)) + 1
      /\ Cardinality(Holds(s, l) \ {1}) =
           IF 1 \in Holds(s, l) THEN Cardinality(Holds(s, l)) - 1 ELSE Cardinality(Holds(s, l))
  BY <1>5, FS_AddElement, FS_RemoveElement
<1> QED BY <1>3, <1>4, <1>6

\* A frame without a lock comes or goes.
LEMMA HoldsShift ==
  ASSUME NEW s \in Seq(Frames), NEW r \in Seq(Frames), Len(r) = Len(s) + 1, NEW l,
         ~HoldsIt(r[1], l), \A i \in 1..Len(s) : r[i + 1] = s[i]
  PROVE  Cardinality(Holds(r, l)) = Cardinality(Holds(s, l))
<1> DEFINE H == Holds(s, l)
           K == Holds(r, l)
           up == [i \in H |-> i + 1]
<1>1. /\ DOMAIN s = 1..Len(s) /\ DOMAIN r = 1..(Len(s) + 1) /\ Len(s) \in Nat
      /\ H \subseteq 1..Len(s) /\ K \subseteq 1..(Len(s) + 1)
  BY StackType DEF Holds
<1>2. \A i \in H : i + 1 \in K
  BY <1>1 DEF Holds
<1>3. ASSUME NEW k \in K PROVE k - 1 \in H /\ (k - 1) + 1 = k
  <2>1. k \in 1..(Len(s) + 1) /\ k # 1
    BY <1>1 DEF Holds, HoldsIt
  <2>2. k - 1 \in 1..Len(s) /\ (k - 1) + 1 = k
    BY <1>1, <2>1
  <2> QED BY <1>1, <2>2 DEF Holds
<1>4. up \in Bijection(H, K)
  <2>1. up \in [H -> K]
    BY <1>2
  <2>2. \A i, j \in DOMAIN up : up[i] = up[j] => i = j
    BY <1>1
  <2>3. \A k \in K : \E i \in H : up[i] = k
    <3> TAKE k \in K
    <3>1. up[k - 1] = k
      BY <1>3
    <3> QED BY <1>3, <3>1
  <2> HIDE DEF up, H, K
  <2> QED BY <2>1, <2>2, <2>3 DEF Bijection, Injection, Surjection, IsInjective
<1>5. IsFiniteSet(H)
  BY HoldsIsFinite
<1> QED BY <1>4, <1>5, FS_Bijection DEF ExistsBijection

LEMMA HoldsOfHeadSame ==
  ASSUME NEW s \in Seq(Frames), s # <<>>, NEW g \in Frames, NEW l,
         HoldsIt(Head(s), l) <=> HoldsIt(g, l)
  PROVE  Cardinality(Holds([s EXCEPT ![1] = g], l)) = Cardinality(Holds(s, l))
<1> DEFINE r == [s EXCEPT ![1] = g]
<1>1. Cardinality(Holds(r, l)) =
        IF HoldsIt(Head(s), l)
        THEN IF HoldsIt(g, l) THEN Cardinality(Holds(s, l)) ELSE Cardinality(Holds(s, l)) - 1
        ELSE IF HoldsIt(g, l) THEN Cardinality(Holds(s, l)) + 1 ELSE Cardinality(Holds(s, l))
  BY HoldsOfHead
<1> QED BY <1>1

-----------------------------------------------------------------------------
(* What a module needs.                                                    *)

\* Needs(n) is the smallest closed set that contains Uses(n).
LEMMA NeedsIsClosed ==
  ASSUME NEW n \in Names
  PROVE  Needs(n) \subseteq Names /\ Uses(n) \subseteq Needs(n) /\ Closed(Needs(n))
<1>1. Needs(n) \subseteq Names /\ Uses(n) \subseteq Needs(n)
  BY DEF Needs, Uses
<1>2. ASSUME NEW m \in Needs(n), NEW k \in Uses(m) PROVE k \in Needs(n)
  BY <1>2 DEF Needs, Closed, Uses
<1> QED BY <1>1, <1>2 DEF Closed

LEMMA NeedsIsTransitive ==
  ASSUME NEW n \in Names, NEW m \in Needs(n)
  PROVE  m \in Names /\ Needs(m) \subseteq Needs(n)
<1>1. Needs(n) \in SUBSET Names /\ Uses(m) \subseteq Needs(n) /\ Closed(Needs(n))
  BY NeedsIsClosed DEF Closed
<1> QED BY <1>1 DEF Needs

LEMMA NeedsBeginWithUses ==
  ASSUME NEW n \in Names, NEW m \in Needs(n)
  PROVE  \E k \in Uses(n) : m = k \/ m \in Needs(k)
<1> DEFINE C == Uses(n) \cup UNION {Needs(k) : k \in Uses(n)}
<1>1. Uses(n) \subseteq Names
  BY DEF Uses
<1>2. C \in SUBSET Names
  BY <1>1, NeedsIsClosed
<1>3. Closed(C)
  <2>1. ASSUME NEW k \in Uses(n), NEW x \in Uses(k) PROVE x \in C
    BY <1>1, <2>1, NeedsIsClosed
  <2>2. ASSUME NEW k \in Uses(n), NEW y \in Needs(k), NEW x \in Uses(y) PROVE x \in C
    BY <1>1, <2>2, NeedsIsClosed DEF Closed
  <2> QED BY <2>1, <2>2 DEF Closed
<1>4. m \in C
  BY <1>2, <1>3 DEF Needs
<1> QED BY <1>4

\* Where no circle is, no module needs itself.
LEMMA NothingNeedsItself ==
  ASSUME Straight, NEW n \in Names
  PROVE  n \notin Needs(n)
<1> SUFFICES ASSUME n \in Needs(n) PROVE FALSE
  OBVIOUS
<1> DEFINE S == {m \in Needs(n) : n \in Needs(m)}
<1>1. S \in SUBSET Names /\ S # {}
  BY NeedsIsClosed
<1>2. ASSUME NEW m \in S PROVE Uses(m) \cap S # {}
  <2>1. m \in Names
    BY <1>1
  <2>2. PICK k \in Uses(m) : n = k \/ n \in Needs(k)
    BY <2>1, NeedsBeginWithUses
  <2>3. k \in Needs(n)
    BY NeedsIsClosed DEF Closed
  <2> QED BY <2>2, <2>3
<1>3. \A m \in S : {program.imports[m], program.parent[m]} \cap S # {}
  BY <1>2 DEF Uses
<1> HIDE DEF S
<1>4. Circular
  BY <1>1, <1>3 DEF Circular
<1> QED BY <1>4 DEF Straight

-----------------------------------------------------------------------------
(* The innermost import changes.                                           *)

LEMMA Tops ==
  ASSUME TypeOK, NEW t \in Threads
  PROVE  /\ Len(stack[t]) \in Nat /\ DOMAIN stack[t] = 1..Len(stack[t])
         /\ \A i \in 1..Len(stack[t]) : stack[t][i] \in Frames
         /\ stack[t] # <<>> <=> Len(stack[t]) >= 1
         /\ stack[t] # <<>> => Top(t) = stack[t][1] /\ Top(t) \in Frames /\ 1 \in 1..Len(stack[t])
<1>1. stack[t] \in Seq(Frames)
  BY DEF TypeOK
<1> QED BY <1>1, StackType DEF Top

\* Become(t, g), as the lemmas below use it: t's innermost frame is g, the others stay.
HeadIs(t, g) ==
  /\ stack' \in [Threads -> Seq(Frames)]
  /\ stack'[t] = [stack[t] EXCEPT ![1] = g] /\ stack'[t] # <<>> /\ Head(stack'[t]) = g
  /\ \A u \in Threads \ {t} : stack'[u] = stack[u]
  /\ \A u \in Threads :
       /\ Len(stack'[u]) = Len(stack[u]) /\ DOMAIN stack'[u] = 1..Len(stack[u])
       /\ stack'[u] = <<>> <=> stack[u] = <<>>
       /\ \A i \in 1..Len(stack[u]) : stack'[u][i] = IF u = t /\ i = 1 THEN g ELSE stack[u][i]

LEMMA BecomeStep ==
  ASSUME TypeOK, NEW t \in Threads, stack[t] # <<>>, NEW g \in Frames, Become(t, g)
  PROVE  HeadIs(t, g)
<1> DEFINE r == [stack[t] EXCEPT ![1] = g]
<1>1. stack[t] \in Seq(Frames) /\ stack \in [Threads -> Seq(Frames)]
  BY DEF TypeOK
<1>2. /\ r \in Seq(Frames) /\ r # <<>> /\ Len(r) = Len(stack[t])
      /\ r[1] = g /\ Head(r) = g
      /\ \A i \in 1..Len(stack[t]) : i # 1 => r[i] = stack[t][i]
  BY <1>1, HeadChanges
<1>3. stack' = [stack EXCEPT ![t] = r]
  BY DEF Become
<1> HIDE DEF r
<1>4. stack' \in [Threads -> Seq(Frames)] /\ stack'[t] = r
      /\ \A u \in Threads \ {t} : stack'[u] = stack[u]
  BY <1>1, <1>2, <1>3
<1>5. \A u \in Threads : DOMAIN stack'[u] = 1..Len(stack'[u])
  BY <1>4, LenProperties
<1>6. ASSUME NEW u \in Threads
      PROVE  /\ Len(stack'[u]) = Len(stack[u]) 
             /\ stack'[u] = <<>> <=> stack[u] = <<>>
             /\ \A i \in 1..Len(stack[u]) :
                  stack'[u][i] = IF u = t /\ i = 1 THEN g ELSE stack[u][i]
  BY <1>2, <1>4
<1> QED BY <1>2, <1>4, <1>5, <1>6 DEF r, HeadIs

Statuses == {"initializing", "complete", "failed"}

\* Each part of the invariant, when t's innermost frame becomes g.
LEMMA BecomeType ==
  ASSUME TypeOK, NEW t \in Threads, stack[t] # <<>>, NEW g \in Frames, Become(t, g),
         program' = program, holder' \in Threads \cup {None}, level' \in Nat,
         locks' \in [Names -> LockIds \cup {None, Dead}],
         owner' \in [LockIds -> Threads \cup {None}], count' \in [LockIds -> Nat],
         sys_modules' \in [Names -> Nat], status' \in [Names -> Seq(Statuses)],
         begun' = begun, \A n \in Names : sys_modules'[n] <= Len(status'[n])
  PROVE  TypeOK'
BY BecomeStep DEF HeadIs, TypeOK, Statuses

\* A frame that does not change stays as it should be.
LEMMA FrameStays ==
  ASSUME TypeOK, NEW f \in Frames, FrameSound(f), program' = program,
         \A n \in Names : Len(status'[n]) \in Nat /\ Len(status[n]) <= Len(status'[n])
  PROVE  FrameSound(f)'
<1>1. f.name \in Names /\ f.module \in Nat /\ Len(status[f.name]) \in Nat
  BY LenProperties DEF TypeOK, Frames
<1> QED BY <1>1 DEF FrameSound

LEMMA NeedsStay ==
  ASSUME program' = program
  PROVE  \A n : Needs(n)' = Needs(n) /\ Uses(n)' = Uses(n)
BY DEF Needs, Uses, Closed

LEMMA BecomeStacks ==
  ASSUME TypeOK, StacksSound, NEW t \in Threads, stack[t] # <<>>, NEW g \in Frames, Become(t, g),
         g.name = Top(t).name, FrameSound(g)', program' = program,
         \A n \in Names : Len(status'[n]) \in Nat /\ Len(status[n]) <= Len(status'[n])
  PROVE  StacksSound'
<1>1. \A n : Needs(n)' = Needs(n)
  BY NeedsStay
<1> SUFFICES ASSUME NEW u \in Threads, NEW i \in 1..Len(stack'[u])
             PROVE  /\ FrameSound(stack[u][i])'
                    /\ i > 1 => stack'[u][i].at \in {"recheck", "ran"}
                    /\ \A j \in 1..Len(stack'[u]) :
                         i < j => stack'[u][i].name \in Needs(stack'[u][j].name)
  BY <1>1 DEF StacksSound
<1>2. /\ Len(stack'[u]) = Len(stack[u]) /\ Len(stack[u]) \in Nat
      /\ \A k \in 1..Len(stack[u]) : stack'[u][k] = IF u = t /\ k = 1 THEN g ELSE stack[u][k]
      /\ i \in 1..Len(stack[u])
  <2>1. HeadIs(t, g)
    BY BecomeStep
  <2>2. Len(stack[u]) \in Nat
    BY Tops
  <2> QED BY <2>1, <2>2 DEF HeadIs
<1>3. Top(t) = stack[t][1]
  BY Tops
<1>4. \A k \in 1..Len(stack[u]) : stack'[u][k].name = stack[u][k].name
  BY <1>2, <1>3
<1>5. FrameSound(stack[u][i])'
  <2>1. CASE u = t /\ i = 1
    BY <2>1, <1>2 DEF FrameSound
  <2>2. CASE ~(u = t /\ i = 1)
    <3>1. stack'[u][i] = stack[u][i] /\ stack[u][i] \in Frames /\ FrameSound(stack[u][i])
      BY <2>2, <1>2, Tops DEF StacksSound
    <3>2. FrameSound(stack[u][i])'
      <4>1. \A f \in Frames : FrameSound(f) => FrameSound(f)'
        BY FrameStays
      <4> QED BY <4>1, <3>1
    <3> QED BY <3>1, <3>2 DEF FrameSound
  <2> QED BY <2>1, <2>2
<1> QED BY <1>2, <1>4, <1>5 DEF StacksSound

\* What the frames of another stack, and of t's below the innermost, are.
LEMMA OldFrames ==
  ASSUME TypeOK, NEW t \in Threads, stack[t] # <<>>, NEW g \in Frames, HeadIs(t, g)
  PROVE  \A u \in Threads :
           /\ Len(stack'[u]) = Len(stack[u]) /\ Len(stack[u]) \in Nat
           /\ DOMAIN stack'[u] = 1..Len(stack[u]) /\ DOMAIN stack[u] = 1..Len(stack[u])
           /\ stack'[u] = <<>> <=> stack[u] = <<>>
           /\ \A i \in 1..Len(stack[u]) :
                /\ stack[u][i] \in Frames /\ stack'[u][i] \in Frames
                /\ u = t /\ i = 1 => stack'[u][i] = g /\ stack[u][i] = Top(t)
                /\ ~(u = t /\ i = 1) => stack'[u][i] = stack[u][i]
<1> TAKE u \in Threads
<1>1. /\ Len(stack[u]) \in Nat /\ DOMAIN stack[u] = 1..Len(stack[u])
      /\ \A i \in 1..Len(stack[u]) : stack[u][i] \in Frames
      /\ Top(t) = stack[t][1]
  BY Tops
<1> QED BY <1>1 DEF HeadIs

LEMMA BecomeNamed ==
  ASSUME TypeOK, LocksNamed, NEW t \in Threads, stack[t] # <<>>, NEW g \in Frames, HeadIs(t, g),
         g.name = Top(t).name, g.lock \in {Top(t).lock, None},
         \A n \in Names : locks'[n] \in LockIds => locks'[n] = locks[n]
  PROVE  LocksNamed'
<1> SUFFICES ASSUME NEW u \in Threads, NEW i \in 1..Len(stack'[u]), stack'[u][i].lock \in LockIds
             PROVE  /\ \A n \in Names : locks'[n] = stack'[u][i].lock => stack'[u][i].name = n
                    /\ \A v \in Threads : \A j \in 1..Len(stack'[v]) :
                         stack'[v][j].lock = stack'[u][i].lock => stack'[v][j].name = stack'[u][i].name
  BY DEF LocksNamed
<1>1. /\ i \in 1..Len(stack[u])
      /\ stack'[u][i].lock = stack[u][i].lock /\ stack'[u][i].name = stack[u][i].name
  BY OldFrames, LockAssumption
<1>2. ASSUME NEW v \in Threads, NEW j \in 1..Len(stack'[v]), stack'[v][j].lock = stack'[u][i].lock
      PROVE  /\ j \in 1..Len(stack[v])
             /\ stack[v][j].lock = stack[u][i].lock /\ stack'[v][j].name = stack[v][j].name
  BY <1>1, <1>2, OldFrames, LockAssumption
<1>3. \A n \in Names : locks'[n] = stack'[u][i].lock => stack'[u][i].name = n
  BY <1>1 DEF LocksNamed
<1>4. \A v \in Threads : \A j \in 1..Len(stack[v]) :
        stack[v][j].lock = stack[u][i].lock => stack[v][j].name = stack[u][i].name
  BY <1>1 DEF LocksNamed
<1> QED BY <1>1, <1>2, <1>3, <1>4

LEMMA BecomeHolds ==
  ASSUME TypeOK, NEW t \in Threads, stack[t] # <<>>, NEW g \in Frames, HeadIs(t, g), NEW l,
         NEW u \in Threads
  PROVE  LET before == Cardinality(Holds(stack[u], l)) IN
         Cardinality(Holds(stack'[u], l)) =
           IF u # t \/ (HoldsIt(Top(t), l) <=> HoldsIt(g, l)) THEN before
           ELSE IF HoldsIt(g, l) THEN before + 1 ELSE before - 1
<1>1. CASE u # t
  BY <1>1 DEF HeadIs
<1>2. CASE u = t
  <2>1. stack[t] \in Seq(Frames)
    BY DEF TypeOK
  <2>2. Cardinality(Holds(stack'[t], l)) =
           IF HoldsIt(Head(stack[t]), l)
           THEN IF HoldsIt(g, l) THEN Cardinality(Holds(stack[t], l)) ELSE Cardinality(Holds(stack[t], l)) - 1
           ELSE IF HoldsIt(g, l) THEN Cardinality(Holds(stack[t], l)) + 1 ELSE Cardinality(Holds(stack[t], l))
    <3>1. stack'[t] = [stack[t] EXCEPT ![1] = g]
      BY DEF HeadIs
    <3> QED BY <2>1, <3>1, HoldsOfHead
  <2> QED BY <1>2, <2>2 DEF Top
<1> QED BY <1>1, <1>2

LEMMA BecomeCounted ==
  ASSUME TypeOK, LocksCounted, NEW t \in Threads, stack[t] # <<>>, NEW g \in Frames, HeadIs(t, g),
         owner' = owner, count' = count,
         \A l \in LockIds : HoldsIt(Top(t), l) <=> HoldsIt(g, l)
  PROVE  LocksCounted'
<1> SUFFICES ASSUME NEW l \in LockIds
             PROVE  /\ owner'[l] = None <=> count'[l] = 0
                    /\ \A u \in Threads :
                         (IF owner'[l] = u THEN count'[l] ELSE 0) = Cardinality(Holds(stack'[u], l))
  BY DEF LocksCounted
<1>1. \A u \in Threads : Cardinality(Holds(stack'[u], l)) = Cardinality(Holds(stack[u], l))
  BY BecomeHolds
<1> QED BY <1>1 DEF LocksCounted

LEMMA BecomeNoStale ==
  ASSUME TypeOK, NoStaleEntry, NEW t \in Threads, stack[t] # <<>>, NEW g \in Frames, HeadIs(t, g),
         g.lock = Top(t).lock, Top(t).at # "callback", locks' = locks
  PROVE  NoStaleEntry'
<1> SUFFICES ASSUME NEW n \in Names
             PROVE  /\ locks'[n] \in LockIds => locks'[n] \in Alive'
                    /\ locks'[n] = Dead =>
                         \E u \in Threads : stack'[u] # <<>> /\ Head(stack'[u]).at = "callback"
                                            /\ Head(stack'[u]).name = n
  BY DEF NoStaleEntry, At, Top
<1>1. ASSUME locks'[n] \in LockIds PROVE locks'[n] \in Alive'
  <2>1. PICK u \in Threads : \E i \in DOMAIN stack[u] : stack[u][i].lock = locks[n]
    BY <1>1 DEF NoStaleEntry, Alive
  <2>2. PICK i \in DOMAIN stack[u] : stack[u][i].lock = locks[n]
    BY <2>1
  <2>3. i \in DOMAIN stack'[u] /\ stack'[u][i].lock = locks'[n]
    BY <2>2, OldFrames
  <2> QED BY <1>1, <2>3 DEF Alive
<1>2. ASSUME locks'[n] = Dead
      PROVE  \E u \in Threads : stack'[u] # <<>> /\ Head(stack'[u]).at = "callback"
                                /\ Head(stack'[u]).name = n
  <2>1. PICK u \in Threads : At(u, "callback") /\ Top(u).name = n
    BY <1>2 DEF NoStaleEntry
  <2>2. u # t
    BY <2>1 DEF At
  <2> QED BY <2>1, <2>2 DEF At, Top, HeadIs
<1> QED BY <1>1, <1>2

LEMMA BecomeLoaders ==
  ASSUME TypeOK, LoadersLock, NEW t \in Threads, stack[t] # <<>>, NEW g \in Frames, HeadIs(t, g),
         g.name = Top(t).name, g.lock \in {Top(t).lock, None}, g.loads = Top(t).loads,
         g.at # "callback", locks' = locks
  PROVE  LoadersLock'
<1> SUFFICES ASSUME NEW u \in Threads, NEW i \in 1..Len(stack'[u]),
                    stack'[u][i].loads, stack'[u][i].lock \in LockIds
             PROVE  /\ locks'[stack'[u][i].name] = stack'[u][i].lock
                    /\ \A v \in Threads : \A j \in 1..Len(stack'[v]) :
                         stack'[v][j].name = stack'[u][i].name =>
                           /\ stack'[v][j].at # "callback"
                           /\ stack'[v][j].lock \in LockIds => stack'[v][j].lock = stack'[u][i].lock
  BY DEF LoadersLock
<1>1. /\ i \in 1..Len(stack[u])
      /\ stack[u][i].loads /\ stack[u][i].lock \in LockIds
      /\ stack'[u][i].lock = stack[u][i].lock /\ stack'[u][i].name = stack[u][i].name
  BY OldFrames, LockAssumption
<1>2. ASSUME NEW v \in Threads, NEW j \in 1..Len(stack'[v])
      PROVE  /\ j \in 1..Len(stack[v]) /\ stack'[v][j].name = stack[v][j].name
             /\ stack'[v][j].lock \in LockIds => stack'[v][j].lock = stack[v][j].lock
             /\ stack'[v][j].at = "callback" => stack[v][j].at = "callback"
  BY OldFrames, LockAssumption
<1>3. /\ locks[stack[u][i].name] = stack[u][i].lock
      /\ \A v \in Threads : \A j \in 1..Len(stack[v]) :
           stack[v][j].name = stack[u][i].name =>
             /\ stack[v][j].at # "callback"
             /\ stack[v][j].lock \in LockIds => stack[v][j].lock = stack[u][i].lock
  BY <1>1 DEF LoadersLock
<1>4. ASSUME NEW v \in Threads, NEW j \in 1..Len(stack'[v]), stack'[v][j].name = stack'[u][i].name
      PROVE  /\ stack'[v][j].at # "callback"
             /\ stack'[v][j].lock \in LockIds => stack'[v][j].lock = stack'[u][i].lock
  BY <1>1, <1>2, <1>3, <1>4
<1> QED BY <1>1, <1>3, <1>4

\* In a program without failures and circles.
LEMMA BecomeStraight ==
  ASSUME ImportAssumption, TypeOK, StacksSound, StraightFrames,
         NEW t \in Threads, stack[t] # <<>>, NEW g \in Frames, HeadIs(t, g),
         g.name = Top(t).name, program' = program,
         \A n \in Names : sys_modules[n] # 0 => sys_modules'[n] # 0,
         \A u \in Threads \ {t} : At(u, "load") => sys_modules'[Top(u).name] = 0,
         \A n \in Names : \A k \in 1..Len(status[n]) :
           status[n][k] = "complete" => status'[n][k] = "complete",
         StraightFrame(t, 1)'
  PROVE  StraightFrames'
<1> SUFFICES ASSUME NEW u \in Threads, NEW i \in 1..Len(stack[u]), ~(u = t /\ i = 1)
             PROVE  StraightFrame(u, i)'
  BY OldFrames DEF StraightFrames
<1> DEFINE f == stack[u][i]
           p == program.parent[f.name]
<1>1. f \in Frames /\ stack'[u][i] = f /\ Len(stack[u]) \in Nat
  BY OldFrames
<1>2. f.name \in Names /\ f.module \in Nat /\ p \in Names \cup {None}
  BY <1>1 DEF Frames, TypeOK, ImportAssumption
<1>3. StraightFrame(u, i) /\ FrameSound(f) /\ (i > 1 => f.at \in {"recheck", "ran"})
  BY DEF StraightFrames, StacksSound
<1>4. f.at = "load" => sys_modules'[f.name] = 0
  <2> SUFFICES ASSUME f.at = "load" PROVE sys_modules'[f.name] = 0
    OBVIOUS
  <2>1. i = 1 /\ u # t
    BY <1>1, <1>3
  <2>2. Top(u) = f /\ stack[u] # <<>>
    BY <1>1, <2>1, Tops
  <2> QED BY <2>1, <2>2 DEF At
<1>5. f.at \in {"unlock", "callback", "return"} => status'[f.name][f.module] = "complete"
  <2> SUFFICES ASSUME f.at \in {"unlock", "callback", "return"}
               PROVE  status'[f.name][f.module] = "complete"
    OBVIOUS
  <2>1. f.module # 0 /\ f.module <= Len(status[f.name]) /\ status[f.name][f.module] = "complete"
    BY <1>3 DEF StraightFrame, FrameSound
  <2>2. Len(status[f.name]) \in Nat
    BY <1>2, LenProperties DEF TypeOK
  <2>3. f.module \in 1..Len(status[f.name])
    BY <1>2, <2>1, <2>2
  <2> QED BY <1>2, <2>1, <2>3
<1>6. f.at = "recheck" => p \in Names
  BY <1>3 DEF FrameSound
<1>7. f.at = "recheck" => IF i = 1 THEN sys_modules'[p] # 0 ELSE stack'[u][i-1].name = p
  <2> SUFFICES ASSUME f.at = "recheck"
               PROVE  IF i = 1 THEN sys_modules'[p] # 0 ELSE stack'[u][i-1].name = p
    OBVIOUS
  <2>1. CASE i = 1
    BY <1>3, <1>6, <2>1 DEF StraightFrame
  <2>2. CASE i # 1
    <3>1. i - 1 \in 1..Len(stack[u])
      BY <1>1, <2>2
    <3>2. stack[u][i-1].name = p
      BY <1>3, <2>2 DEF StraightFrame
    <3>3. stack'[u][i-1].name = stack[u][i-1].name
      BY <3>1, OldFrames
    <3> QED BY <2>2, <3>2, <3>3
  <2> QED BY <2>1, <2>2
<1>8. /\ f.at # "raise"
      /\ f.at = "fetch" => sys_modules'[f.name] # 0
      /\ f.module # 0 => sys_modules'[f.name] # 0
      /\ f.at \in {"wait", "callback", "return", "unlock"} => f.module # 0
      /\ f.at \in Waiting => f.loads \/ f.module # 0
      /\ f.at \in {"spec", "body", "ran"} => p = None \/ sys_modules'[p] # 0
  BY <1>2, <1>3 DEF StraightFrame
<1> QED BY <1>1, <1>4, <1>5, <1>7, <1>8 DEF StraightFrame

LEMMA BecomeModules ==
  ASSUME TypeOK, ModulesRun, NEW t \in Threads, stack[t] # <<>>, NEW g \in Frames, HeadIs(t, g),
         g.name = Top(t).name, status' = status,
         Top(t).at \in {"body", "ran"} => g.at \in {"body", "ran"} /\ g.module = Top(t).module
  PROVE  ModulesRun'
<1> SUFFICES ASSUME NEW n \in Names, NEW k \in 1..Len(status[n]), status[n][k] # "complete"
             PROVE  \E u \in Threads : \E i \in 1..Len(stack'[u]) :
                      /\ stack'[u][i].name = n /\ stack'[u][i].module = k
                      /\ stack'[u][i].at \in {"body", "ran"}
  BY DEF ModulesRun
<1>1. PICK u \in Threads : \E i \in 1..Len(stack[u]) :
        stack[u][i].name = n /\ stack[u][i].module = k /\ stack[u][i].at \in {"body", "ran"}
  BY DEF ModulesRun
<1>2. PICK i \in 1..Len(stack[u]) :
        stack[u][i].name = n /\ stack[u][i].module = k /\ stack[u][i].at \in {"body", "ran"}
  BY <1>1
<1>3. /\ i \in 1..Len(stack'[u]) /\ stack'[u][i].name = n /\ stack'[u][i].module = k
      /\ stack'[u][i].at \in {"body", "ran"}
  BY <1>2, OldFrames
<1> QED BY <1>3

LookupPlaces == {"fetch", "load", "wait"}

LEMMA BecomeLookups ==
  ASSUME TypeOK, LookupsLocked, NEW t \in Threads, stack[t] # <<>>, NEW g \in Frames, HeadIs(t, g),
         holder' = holder, level' = level,
         g.at \in LookupPlaces => Top(t).at \in LookupPlaces
  PROVE  /\ LookupsLocked'
         /\ ImportLockFree /\ (Top(t).at \in LookupPlaces => g.at \in LookupPlaces) => ImportLockFree'
<1> DEFINE In(u) == At(u, "fetch") \/ At(u, "load") \/ At(u, "wait")
<1>1. \A u \in Threads : /\ In(u)' => In(u)
                         /\ (Top(t).at \in LookupPlaces => g.at \in LookupPlaces) => (In(u)' <=> In(u))
  <2> TAKE u \in Threads
  <2>1. CASE u = t
    BY <2>1 DEF At, Top, HeadIs, LookupPlaces
  <2>2. CASE u # t
    BY <2>2 DEF At, Top, HeadIs
  <2> QED BY <2>1, <2>2
<1>2. LookupsLocked'
  BY <1>1 DEF LookupsLocked
<1>3. ASSUME ImportLockFree, Top(t).at \in LookupPlaces => g.at \in LookupPlaces
      PROVE  ImportLockFree'
  BY <1>1, <1>3 DEF ImportLockFree
<1> QED BY <1>2, <1>3

LEMMA StraightStays ==
  ASSUME program' = program
  PROVE  Straight' <=> Straight
BY DEF Straight, Circular

\* The innermost import goes on without changing locks.
LEMMA GoesOn ==
  ASSUME ImportAssumption, IInv,
         NEW t \in Threads, stack[t] # <<>>, NEW g \in Frames, Become(t, g),
         g.name = Top(t).name, g.lock = Top(t).lock, g.loads = Top(t).loads,
         g.at \in Waiting <=> Top(t).at \in Waiting,
         g.at \in LookupPlaces => Top(t).at \in LookupPlaces,
         g.at # "callback", Top(t).at # "callback",
         UNCHANGED <<program, importLock, locks, moduleLocks, begun>>,
         FrameSound(g)',
         sys_modules' \in [Names -> Nat], status' \in [Names -> Seq(Statuses)],
         \A n \in Names : Len(status[n]) <= Len(status'[n]) /\ sys_modules'[n] <= Len(status'[n]),
         Straight =>
           /\ \A n \in Names : sys_modules[n] # 0 => sys_modules'[n] # 0
           /\ \A u \in Threads \ {t} : At(u, "load") => sys_modules'[Top(u).name] = 0
           /\ \A n \in Names : \A k \in 1..Len(status[n]) :
                status[n][k] = "complete" => status'[n][k] = "complete"
           /\ StraightFrame(t, 1)'
           /\ Top(t).at \in LookupPlaces => g.at \in LookupPlaces
           /\ ModulesRun'
  PROVE  IInv'
<1>1. HeadIs(t, g)
  BY BecomeStep DEF IInv
<1>2. TypeOK'
  BY BecomeType DEF IInv, TypeOK, importLock, moduleLocks
<1>3. StacksSound'
  <2>1. \A n \in Names : Len(status'[n]) \in Nat /\ Len(status[n]) <= Len(status'[n])
    BY LenProperties
  <2> QED BY <2>1, BecomeStacks DEF IInv
<1>4. /\ LookupsLocked'
      /\ ImportLockFree /\ (Top(t).at \in LookupPlaces => g.at \in LookupPlaces) => ImportLockFree'
  BY <1>1, BecomeLookups DEF IInv, importLock
<1>5. LocksNamed'
  BY <1>1, BecomeNamed DEF IInv
<1>6. LocksCounted'
  BY <1>1, BecomeCounted DEF IInv, HoldsIt, moduleLocks
<1>7. NoStaleEntry'
  BY <1>1, BecomeNoStale DEF IInv
<1>8. ASSUME Straight' PROVE StraightSound'
  <2>1. Straight
    BY <1>8, StraightStays
  <2>2. LoadersLock'
    BY <1>1, <2>1, BecomeLoaders DEF IInv, StraightSound
  <2>3. StraightFrames'
    BY <1>1, <2>1, BecomeStraight DEF IInv, StraightSound
  <2> QED BY <1>4, <2>1, <2>2, <2>3 DEF IInv, StraightSound
<1> QED BY <1>2, <1>3, <1>4, <1>5, <1>6, <1>7, <1>8 DEF IInv

\* It does not touch modules either.
LEMMA OnlyGoesOn ==
  ASSUME ImportAssumption, IInv,
         NEW t \in Threads, stack[t] # <<>>, NEW g \in Frames, Become(t, g),
         g.name = Top(t).name, g.lock = Top(t).lock, g.loads = Top(t).loads,
         g.at \in Waiting <=> Top(t).at \in Waiting,
         g.at \in LookupPlaces => Top(t).at \in LookupPlaces,
         g.at # "callback", Top(t).at # "callback",
         UNCHANGED <<program, importLock, locks, moduleLocks, sys_modules, status, begun>>,
         FrameSound(g),
         Straight =>
           /\ StraightFrame(t, 1)'
           /\ Top(t).at \in LookupPlaces => g.at \in LookupPlaces
           /\ Top(t).at \in {"body", "ran"} => g.at \in {"body", "ran"} /\ g.module = Top(t).module
  PROVE  IInv'
<1>1. HeadIs(t, g)
  BY BecomeStep DEF IInv
<1>2. \A n \in Names : Len(status[n]) \in Nat /\ sys_modules[n] <= Len(status[n])
  BY LenProperties DEF IInv, TypeOK
<1>3. FrameSound(g)'
  BY DEF FrameSound
<1>4. ASSUME Straight
      PROVE  /\ \A n \in Names : sys_modules[n] # 0 => sys_modules'[n] # 0
             /\ \A u \in Threads \ {t} : At(u, "load") => sys_modules'[Top(u).name] = 0
             /\ \A n \in Names : \A k \in 1..Len(status[n]) :
                  status[n][k] = "complete" => status'[n][k] = "complete"
  <2> SUFFICES ASSUME NEW u \in Threads, At(u, "load") PROVE sys_modules[Top(u).name] = 0
    OBVIOUS
  <2>1. 1 \in 1..Len(stack[u]) /\ Top(u) = stack[u][1]
    BY Tops DEF IInv, At
  <2> QED BY <1>4, <2>1 DEF IInv, StraightSound, StraightFrames, StraightFrame, At
<1>5. ASSUME Straight PROVE ModulesRun'
  BY <1>1, <1>4, <1>5, BecomeModules DEF IInv, StraightSound
<1>6. sys_modules' \in [Names -> Nat] /\ status' \in [Names -> Seq(Statuses)]
  BY DEF IInv, TypeOK, Statuses
<1>7. \A n \in Names : Len(status[n]) <= Len(status'[n]) /\ sys_modules'[n] <= Len(status'[n])
  BY <1>2
<1>8. Straight =>
        /\ \A n \in Names : sys_modules[n] # 0 => sys_modules'[n] # 0
        /\ \A u \in Threads \ {t} : At(u, "load") => sys_modules'[Top(u).name] = 0
        /\ \A n \in Names : \A k \in 1..Len(status[n]) :
             status[n][k] = "complete" => status'[n][k] = "complete"
        /\ StraightFrame(t, 1)'
        /\ Top(t).at \in LookupPlaces => g.at \in LookupPlaces
        /\ ModulesRun'
  BY <1>4, <1>5
<1>9. UNCHANGED <<program, importLock, locks, moduleLocks, begun>>
  OBVIOUS
<1> QED BY <1>3, <1>6, <1>7, <1>8, <1>9, GoesOn

-----------------------------------------------------------------------------
(* Who holds the lock of a module.                                         *)

\* The thread of a frame that has acquired a lock is its owner.
LEMMA HolderOwns ==
  ASSUME TypeOK, LocksCounted, NEW t \in Threads, NEW i \in 1..Len(stack[t]), NEW l \in LockIds,
         HoldsIt(stack[t][i], l)
  PROVE  owner[l] = t /\ count[l] \in Nat \ {0}
<1>1. stack[t] \in Seq(Frames) /\ DOMAIN stack[t] = 1..Len(stack[t])
  BY Tops DEF TypeOK
<1>2. i \in Holds(stack[t], l)
  BY <1>1 DEF Holds, HoldsIt
<1>3. Cardinality(Holds(stack[t], l)) # 0
  BY <1>1, <1>2, HoldsIsFinite
<1>4. (IF owner[l] = t THEN count[l] ELSE 0) # 0
  BY <1>3 DEF LocksCounted
<1> QED BY <1>4 DEF TypeOK

\* No two imports load one module at the same time.
LEMMA OneLoader ==
  ASSUME ImportAssumption, IInv, Straight,
         NEW t \in Threads, NEW i \in 1..Len(stack[t]), NEW u \in Threads, NEW j \in 1..Len(stack[u]),
         stack[t][i].loads, stack[t][i].at \in Entered,
         stack[u][j].loads, stack[u][j].at \in Entered,
         stack[t][i].name = stack[u][j].name
  PROVE  t = u /\ i = j
<1> DEFINE f == stack[t][i]
           e == stack[u][j]
<1>1. f.lock \in LockIds /\ e.lock \in LockIds /\ f.name \in Names
  BY Tops DEF IInv, StacksSound, FrameSound, Frames
<1>2. f.lock = e.lock
  BY <1>1 DEF IInv, StraightSound, LoadersLock
<1>3. HoldsIt(f, f.lock) /\ HoldsIt(e, f.lock)
  BY <1>2 DEF HoldsIt, Entered, Waiting
<1>4. owner[f.lock] = t /\ owner[f.lock] = u
  BY <1>1, <1>3, HolderOwns DEF IInv
<1>5. i \in Nat /\ j \in Nat
  OBVIOUS
<1>6. ~(i < j) /\ ~(j < i)
  BY <1>1, <1>4, NothingNeedsItself DEF IInv, StacksSound
<1> QED BY <1>4, <1>5, <1>6

\* While a module is being loaded, it is the only one of that name to be incomplete.
LEMMA OthersComplete ==
  ASSUME ImportAssumption, IInv, Straight, NEW t \in Threads, NEW i \in 1..Len(stack[t]),
         stack[t][i].loads, stack[t][i].at \in Entered,
         NEW k \in 1..Len(status[stack[t][i].name])
  PROVE  \/ status[stack[t][i].name][k] = "complete"
         \/ k = stack[t][i].module /\ stack[t][i].at \in {"body", "ran"}
<1> DEFINE n == stack[t][i].name
<1> SUFFICES ASSUME status[n][k] # "complete"
             PROVE  k = stack[t][i].module /\ stack[t][i].at \in {"body", "ran"}
  OBVIOUS
<1>1. n \in Names
  BY Tops DEF IInv, Frames
<1>2. PICK u \in Threads : \E j \in 1..Len(stack[u]) :
        stack[u][j].name = n /\ stack[u][j].module = k /\ stack[u][j].at \in {"body", "ran"}
  BY <1>1 DEF IInv, StraightSound, ModulesRun
<1>3. PICK j \in 1..Len(stack[u]) :
        stack[u][j].name = n /\ stack[u][j].module = k /\ stack[u][j].at \in {"body", "ran"}
  BY <1>2
<1>4. stack[u][j].loads /\ stack[u][j].at \in Entered
  BY <1>3 DEF IInv, StacksSound, FrameSound, Entered
<1>5. t = u /\ i = j
  BY <1>3, <1>4, OneLoader
<1> QED BY <1>3, <1>5

-----------------------------------------------------------------------------
(* One step of one import.                                                 *)

\* What the invariant says of t's innermost frame.
LEMMA Innermost ==
  ASSUME ImportAssumption, IInv, NEW t \in Threads, NEW place, At(t, place)
  PROVE  LET f == Top(t)
             n == f.name IN
         /\ stack[t] # <<>> /\ 1 \in 1..Len(stack[t]) /\ f = stack[t][1]
         /\ f \in Frames /\ f.at = place /\ n \in Names /\ f.module \in Nat /\ FrameSound(f)
         /\ f.module <= Len(status[n]) /\ Len(status[n]) \in Nat
         /\ sys_modules[n] \in Nat /\ sys_modules[n] <= Len(status[n])
         /\ program.parent[n] \in Names \cup {None} /\ program.imports[n] \in Names \cup {None}
         /\ None \notin Names
         /\ Straight => StraightSound /\ StraightFrame(t, 1)
<1>1. /\ stack[t] # <<>> /\ 1 \in 1..Len(stack[t]) /\ Top(t) = stack[t][1]
      /\ Top(t) \in Frames /\ Top(t).at = place
  BY Tops DEF IInv, At
<1>2. /\ Top(t).name \in Names /\ Top(t).module \in Nat
  BY <1>1 DEF Frames
<1>3. Len(status[Top(t).name]) \in Nat
  BY <1>2, LenProperties DEF IInv, TypeOK
<1>4. FrameSound(Top(t))
  BY <1>1 DEF IInv, StacksSound
<1>5. /\ sys_modules[Top(t).name] \in Nat /\ sys_modules[Top(t).name] <= Len(status[Top(t).name])
      /\ program.parent[Top(t).name] \in Names \cup {None}
      /\ program.imports[Top(t).name] \in Names \cup {None}
      /\ None \notin Names
  BY <1>2 DEF IInv, TypeOK, ImportAssumption
<1>6. Straight => StraightSound /\ StraightFrame(t, 1)
  BY <1>1 DEF IInv, StraightSound, StraightFrames
<1> QED BY <1>1, <1>2, <1>3, <1>4, <1>5, <1>6 DEF FrameSound

LEMMA FetchKeeps ==
  ASSUME ImportAssumption, IInv, NEW t \in Threads, Fetch(t)
  PROVE  IInv'
<1> DEFINE f == Top(t)
           m == sys_modules[f.name]
           g == [f EXCEPT !.module = m, !.at = IF m = 0 THEN "return" ELSE "wait"]
<1>1. At(t, "fetch") /\ Become(t, g)
  BY DEF Fetch
<1>2. /\ stack[t] # <<>> /\ f \in Frames /\ f.at = "fetch" /\ f.name \in Names
      /\ m \in Nat /\ m <= Len(status[f.name]) /\ FrameSound(f)
      /\ Straight => StraightFrame(t, 1) /\ f = stack[t][1]
  BY <1>1, Innermost
<1>3. /\ g \in Frames /\ g.name = f.name /\ g.lock = f.lock /\ g.loads = f.loads
      /\ g.module = m /\ g.at = IF m = 0 THEN "return" ELSE "wait"
  BY <1>2 DEF Frames
<1>4. HeadIs(t, g)
  BY <1>1, <1>2, <1>3, BecomeStep DEF IInv
<1> HIDE DEF g
<1>5. FrameSound(g)
  BY <1>2, <1>3 DEF FrameSound, Waiting, Entered
<1>6. ASSUME Straight PROVE StraightFrame(t, 1)' /\ m # 0
  <2>1. m # 0
    BY <1>2, <1>6 DEF StraightFrame
  <2>2. stack'[t][1] = g
    BY <1>1, <1>2, <1>4, Innermost DEF HeadIs
  <2> QED BY <1>2, <1>3, <2>1, <2>2 DEF StraightFrame, Fetch, Waiting
<1> QED BY <1>1, <1>2, <1>3, <1>5, <1>6, OnlyGoesOn DEF Fetch, Waiting, LookupPlaces

LEMMA OthersCompleteOnTop ==
  ASSUME ImportAssumption, IInv, Straight, NEW t \in Threads, NEW place \in Entered, At(t, place),
         Top(t).loads, NEW k \in 1..Len(status[Top(t).name])
  PROVE  status[Top(t).name][k] = "complete" \/ (k = Top(t).module /\ place \in {"body", "ran"})
<1>1. Top(t) = stack[t][1] /\ 1 \in 1..Len(stack[t]) /\ Top(t).at = place
  BY Innermost
<1>2. stack[t][1].loads /\ stack[t][1].at \in Entered /\ k \in 1..Len(status[stack[t][1].name])
  BY <1>1
<1>3. \/ status[stack[t][1].name][k] = "complete"
      \/ k = stack[t][1].module /\ stack[t][1].at \in {"body", "ran"}
  BY <1>1, <1>2, OthersComplete
<1> QED BY <1>1, <1>3

LEMMA SleepKeeps ==
  ASSUME ImportAssumption, IInv, NEW t \in Threads, Sleep(t)
  PROVE  IInv'
<1> DEFINE f == Top(t)
           g == [f EXCEPT !.at = "asleep"]
<1>1. At(t, "acquire") /\ Become(t, g)
  BY DEF Sleep, Goto
<1>2. /\ stack[t] # <<>> /\ f \in Frames /\ f.at = "acquire" /\ f.name \in Names
      /\ FrameSound(f) /\ f = stack[t][1] /\ 1 \in 1..Len(stack[t])
      /\ Straight => StraightFrame(t, 1)
  BY <1>1, Innermost
<1>3. /\ g \in Frames /\ g.name = f.name /\ g.lock = f.lock /\ g.loads = f.loads
      /\ g.module = f.module /\ g.at = "asleep"
  BY <1>2 DEF Frames
<1>4. HeadIs(t, g)
  BY <1>1, <1>2, <1>3, BecomeStep DEF IInv
<1> HIDE DEF g
<1>5. FrameSound(g)
  BY <1>2, <1>3 DEF FrameSound, Waiting, Entered
<1>6. ASSUME Straight PROVE StraightFrame(t, 1)'
  <2>1. stack'[t][1] = g
    BY <1>2, <1>4 DEF HeadIs
  <2> QED BY <1>2, <1>3, <1>6, <2>1 DEF StraightFrame, Sleep, Waiting
<1> QED BY <1>1, <1>2, <1>3, <1>5, <1>6, OnlyGoesOn DEF Sleep, Waiting, LookupPlaces

LEMMA WakeKeeps ==
  ASSUME ImportAssumption, IInv, NEW t \in Threads, Wake(t)
  PROVE  IInv'
<1> DEFINE f == Top(t)
           g == [f EXCEPT !.at = "acquire"]
<1>1. At(t, "asleep") /\ Become(t, g)
  BY DEF Wake, Goto
<1>2. /\ stack[t] # <<>> /\ f \in Frames /\ f.at = "asleep" /\ f.name \in Names
      /\ FrameSound(f) /\ f = stack[t][1] /\ 1 \in 1..Len(stack[t])
      /\ Straight => StraightFrame(t, 1)
  BY <1>1, Innermost
<1>3. /\ g \in Frames /\ g.name = f.name /\ g.lock = f.lock /\ g.loads = f.loads
      /\ g.module = f.module /\ g.at = "acquire"
  BY <1>2 DEF Frames
<1>4. HeadIs(t, g)
  BY <1>1, <1>2, <1>3, BecomeStep DEF IInv
<1> HIDE DEF g
<1>5. FrameSound(g)
  BY <1>2, <1>3 DEF FrameSound, Waiting, Entered
<1>6. ASSUME Straight PROVE StraightFrame(t, 1)'
  <2>1. stack'[t][1] = g
    BY <1>2, <1>4 DEF HeadIs
  <2> QED BY <1>2, <1>3, <1>6, <2>1 DEF StraightFrame, Wake, Waiting
<1> QED BY <1>1, <1>2, <1>3, <1>5, <1>6, OnlyGoesOn DEF Wake, Waiting, LookupPlaces

\* NotFound and BodyRaises, which only happen where loading may fail.
LEMMA FailureKeeps ==
  ASSUME ImportAssumption, IInv, NEW t \in Threads, NotFound(t) \/ BodyRaises(t)
  PROVE  IInv'
<1>1. ~Straight
  BY DEF NotFound, BodyRaises, Straight
<1>2. ASSUME NEW from \in {"spec", "ran"}, NEW to \in {"unlock", "raise"}, At(t, from), Goto(t, to),
             from = "ran" <=> to = "raise",
             UNCHANGED <<program, importLock, locks, moduleLocks, sys_modules, status, begun>>
      PROVE  IInv'
  <2> DEFINE f == Top(t)
             g == [f EXCEPT !.at = to]
  <2>1. Become(t, g)
    BY <1>2 DEF Goto
  <2>2. /\ stack[t] # <<>> /\ f \in Frames /\ f.at = from /\ f.name \in Names /\ FrameSound(f)
    BY <1>2, Innermost
  <2>3. /\ g \in Frames /\ g.name = f.name /\ g.lock = f.lock /\ g.loads = f.loads
        /\ g.module = f.module /\ g.at = to
    BY <2>2 DEF Frames
  <2> HIDE DEF g
  <2>4. FrameSound(g)
    BY <1>2, <2>2, <2>3 DEF FrameSound, Waiting, Entered
  <2>5. /\ g.at \in Waiting <=> f.at \in Waiting
        /\ g.at \in LookupPlaces => f.at \in LookupPlaces
        /\ g.at # "callback" /\ f.at # "callback"
    BY <2>2, <2>3 DEF Waiting, LookupPlaces
  <2> QED BY <1>1, <1>2, <2>1, <2>2, <2>3, <2>4, <2>5, OnlyGoesOn
<1>3. CASE NotFound(t)
  BY <1>2, <1>3 DEF NotFound
<1>4. CASE BodyRaises(t)
  BY <1>2, <1>4 DEF BodyRaises
<1> QED BY <1>3, <1>4

LEMMA RecheckKeeps ==
  ASSUME ImportAssumption, IInv, NEW t \in Threads, Recheck(t)
  PROVE  IInv'
<1> DEFINE f == Top(t)
           n == f.name
           done == sys_modules[n] # 0 \/ sys_modules[program.parent[n]] = 0
           g == IF done THEN [f EXCEPT !.module = sys_modules[n], !.at = "unlock"]
                ELSE [f EXCEPT !.at = "spec"]
<1>1. At(t, "recheck") /\ Become(t, g)
  BY DEF Recheck, Goto
<1>2. /\ stack[t] # <<>> /\ f \in Frames /\ f.at = "recheck" /\ n \in Names
      /\ FrameSound(f) /\ f = stack[t][1] /\ 1 \in 1..Len(stack[t])
      /\ sys_modules[n] \in Nat /\ sys_modules[n] <= Len(status[n]) /\ Len(status[n]) \in Nat
      /\ Straight => StraightFrame(t, 1)
  BY <1>1, Innermost
<1>3. /\ g \in Frames /\ g.name = n /\ g.lock = f.lock /\ g.loads = f.loads
      /\ g.module = (IF done THEN sys_modules[n] ELSE f.module)
      /\ g.at = (IF done THEN "unlock" ELSE "spec")
  BY <1>2 DEF Frames
<1>4. HeadIs(t, g)
  BY <1>1, <1>2, <1>3, BecomeStep DEF IInv
<1> HIDE DEF g
<1>5. FrameSound(g)
  BY <1>2, <1>3 DEF FrameSound, Waiting, Entered
<1>6. ASSUME Straight PROVE StraightFrame(t, 1)'
  <2>1. stack'[t][1] = g
    BY <1>2, <1>4 DEF HeadIs
  <2>2. sys_modules[program.parent[n]] # 0
    BY <1>2, <1>6 DEF StraightFrame
  <2>3. ASSUME sys_modules[n] # 0 PROVE status[n][sys_modules[n]] = "complete"
    <3>1. sys_modules[n] \in 1..Len(status[n])
      BY <1>2, <2>3
    <3>2. f.loads /\ "recheck" \in Entered
      BY <1>2 DEF FrameSound, Entered
    <3> QED BY <1>1, <1>6, <3>1, <3>2, OthersCompleteOnTop
  <2> QED BY <1>2, <1>3, <1>6, <2>1, <2>2, <2>3 DEF StraightFrame, Recheck, Waiting
<1> QED BY <1>1, <1>2, <1>3, <1>5, <1>6, OnlyGoesOn DEF Recheck, Waiting, LookupPlaces

LEMMA InstallKeeps ==
  ASSUME ImportAssumption, IInv, NEW t \in Threads, Install(t)
  PROVE  IInv'
<1> DEFINE f == Top(t)
           n == f.name
           m == Len(status[n]) + 1
<1>1. At(t, "spec") /\ Become(t, [f EXCEPT !.module = m, !.at = "body"])
  BY DEF Install
<1>2. /\ stack[t] # <<>> /\ f \in Frames /\ f.at = "spec" /\ n \in Names
      /\ FrameSound(f) /\ f = stack[t][1] /\ 1 \in 1..Len(stack[t])
      /\ Len(status[n]) \in Nat
      /\ Straight => StraightSound /\ StraightFrame(t, 1)
  BY <1>1, Innermost
<1>3. PICK g \in Frames : /\ Become(t, g) /\ g.name = n /\ g.lock = f.lock /\ g.loads = f.loads
                          /\ g.module = m /\ g.at = "body"
  <2>1. m \in Nat
    BY <1>2
  <2> DEFINE h == [f EXCEPT !.module = m, !.at = "body"]
  <2>2. /\ h \in Frames /\ h.name = n /\ h.lock = f.lock /\ h.loads = f.loads
        /\ h.module = m /\ h.at = "body"
    BY <1>2, <2>1 DEF Frames
  <2>3. Become(t, h)
    BY <1>1
  <2> HIDE DEF h
  <2> QED BY <2>1, <2>2, <2>3
<1>4. HeadIs(t, g)
  BY <1>2, <1>3, BecomeStep DEF IInv
<1>5. /\ status \in [Names -> Seq(Statuses)] /\ sys_modules \in [Names -> Nat]
      /\ \A x \in Names : Len(status[x]) \in Nat /\ sys_modules[x] <= Len(status[x])
  BY LenProperties DEF IInv, TypeOK, Statuses
<1>6. /\ Append(status[n], "initializing") \in Seq(Statuses)
      /\ Len(Append(status[n], "initializing")) = m
      /\ \A k \in 1..Len(status[n]) : Append(status[n], "initializing")[k] = status[n][k]
  BY <1>2, <1>5, AppendProperties DEF Statuses
<1>7. /\ status' \in [Names -> Seq(Statuses)] /\ sys_modules' \in [Names -> Nat]
      /\ Len(status'[n]) = m /\ sys_modules'[n] = m
      /\ \A k \in 1..Len(status[n]) : status'[n][k] = status[n][k]
      /\ \A x \in Names \ {n} : status'[x] = status[x] /\ sys_modules'[x] = sys_modules[x]
  BY <1>2, <1>5, <1>6 DEF Install
<1>8. \A x \in Names : Len(status[x]) <= Len(status'[x]) /\ sys_modules'[x] <= Len(status'[x])
  BY <1>2, <1>5, <1>7
<1>9. FrameSound(g)'
  BY <1>2, <1>3, <1>7 DEF FrameSound, Waiting, Entered
<1>10. ASSUME Straight
       PROVE  /\ \A x \in Names : sys_modules[x] # 0 => sys_modules'[x] # 0
              /\ \A u \in Threads \ {t} : At(u, "load") => sys_modules'[Top(u).name] = 0
              /\ \A x \in Names : \A k \in 1..Len(status[x]) :
                   status[x][k] = "complete" => status'[x][k] = "complete"
              /\ StraightFrame(t, 1)'
              /\ Top(t).at \in LookupPlaces => g.at \in LookupPlaces
              /\ ModulesRun'
  <2>1. stack'[t][1] = g
    BY <1>2, <1>4 DEF HeadIs
  <2>2. \A x \in Names : sys_modules[x] # 0 => sys_modules'[x] # 0
    BY <1>2, <1>7
  <2>3. ASSUME NEW u \in Threads \ {t}, At(u, "load") PROVE FALSE
    BY <2>3 DEF IInv, LookupsLocked, Install, MayLock, TypeOK, ImportAssumption
  <2>4. \A x \in Names : \A k \in 1..Len(status[x]) :
          status[x][k] = "complete" => status'[x][k] = "complete"
    BY <1>7
  <2>5. StraightFrame(t, 1)'
    <3>1. program.parent[n] = None \/ sys_modules'[program.parent[n]] # 0
      <4>1. program.parent[n] \in Names \cup {None}
        BY <1>1, Innermost
      <4> QED BY <1>2, <1>10, <2>2, <4>1 DEF StraightFrame
    <3>2. m # 0 /\ program' = program
      BY <1>2 DEF Install
    <3> QED BY <1>3, <1>7, <2>1, <3>1, <3>2 DEF StraightFrame, Waiting
  <2>6. ModulesRun'
    <3> SUFFICES ASSUME NEW x \in Names, NEW k \in 1..Len(status'[x]), status'[x][k] # "complete"
                 PROVE  \E u \in Threads : \E i \in 1..Len(stack'[u]) :
                          /\ stack'[u][i].name = x /\ stack'[u][i].module = k
                          /\ stack'[u][i].at \in {"body", "ran"}
      BY DEF ModulesRun
    <3>1. CASE x # n
      <4>1. PICK u \in Threads : \E i \in 1..Len(stack[u]) :
              stack[u][i].name = x /\ stack[u][i].module = k /\ stack[u][i].at \in {"body", "ran"}
        <5>1. k \in 1..Len(status[x]) /\ status[x][k] # "complete"
          BY <1>7, <3>1
        <5> QED BY <1>2, <1>10, <5>1 DEF StraightSound, ModulesRun
      <4>2. PICK i \in 1..Len(stack[u]) :
              stack[u][i].name = x /\ stack[u][i].module = k /\ stack[u][i].at \in {"body", "ran"}
        BY <4>1
      <4>3. i \in 1..Len(stack'[u]) /\ stack'[u][i] = stack[u][i]
        BY <1>2, <1>4, <3>1, <4>2 DEF HeadIs
      <4> QED BY <4>2, <4>3
    <3>2. CASE x = n /\ k # m
      <4>1. k \in 1..Len(status[n])
        BY <1>2, <1>7, <3>2
      <4>2. f.loads /\ "spec" \in Entered
        BY <1>2 DEF FrameSound, Entered
      <4>3. status[n][k] = "complete"
        BY <1>1, <1>10, <4>1, <4>2, OthersCompleteOnTop
      <4> QED BY <1>7, <3>2, <4>1, <4>3
    <3>3. CASE x = n /\ k = m
      <4>1. 1 \in 1..Len(stack'[t])
        BY <1>2, <1>4 DEF HeadIs
      <4> QED BY <1>3, <2>1, <3>3, <4>1
    <3> QED BY <3>1, <3>2, <3>3
  <2> QED BY <1>2, <2>2, <2>3, <2>4, <2>5, <2>6 DEF LookupPlaces
<1>11. UNCHANGED <<program, importLock, locks, moduleLocks, begun>>
  BY DEF Install
<1>12. /\ g.at \in Waiting <=> f.at \in Waiting
       /\ g.at \in LookupPlaces => f.at \in LookupPlaces
       /\ g.at # "callback" /\ f.at # "callback"
  BY <1>2, <1>3 DEF Waiting, LookupPlaces
<1> QED BY <1>1, <1>2, <1>3, <1>7, <1>8, <1>9, <1>10, <1>11, <1>12, GoesOn

LEMMA CompleteKeeps ==
  ASSUME ImportAssumption, IInv, NEW t \in Threads, Complete(t)
  PROVE  IInv'
<1> DEFINE f == Top(t)
           n == f.name
           p == program.parent[n]
           gone == p # None /\ sys_modules[p] = 0
           m == IF gone THEN 0 ELSE sys_modules[n]
<1>1. At(t, "ran") /\ Become(t, [f EXCEPT !.module = m, !.at = "unlock"])
  BY DEF Complete
<1>2. /\ stack[t] # <<>> /\ f \in Frames /\ f.at = "ran" /\ n \in Names
      /\ FrameSound(f) /\ f = stack[t][1] /\ 1 \in 1..Len(stack[t])
      /\ Len(status[n]) \in Nat /\ f.module \in 1..Len(status[n])
      /\ sys_modules[n] \in Nat /\ sys_modules[n] <= Len(status[n])
      /\ Straight => StraightSound /\ StraightFrame(t, 1)
  <2>1. /\ stack[t] # <<>> /\ f \in Frames /\ f.at = "ran" /\ n \in Names
        /\ FrameSound(f) /\ f = stack[t][1] /\ 1 \in 1..Len(stack[t])
        /\ Len(status[n]) \in Nat /\ f.module \in Nat /\ f.module <= Len(status[n])
        /\ sys_modules[n] \in Nat /\ sys_modules[n] <= Len(status[n])
        /\ Straight => StraightSound /\ StraightFrame(t, 1)
    BY <1>1, Innermost
  <2>2. f.module # 0
    BY <2>1 DEF FrameSound
  <2> QED BY <2>1, <2>2
<1>3. PICK g \in Frames : /\ Become(t, g) /\ g.name = n /\ g.lock = f.lock /\ g.loads = f.loads
                          /\ g.module = m /\ g.at = "unlock" /\ m \in Nat /\ m <= Len(status[n])
  <2>1. m \in Nat /\ m <= Len(status[n])
    BY <1>2
  <2> DEFINE h == [f EXCEPT !.module = m, !.at = "unlock"]
  <2>2. /\ h \in Frames /\ h.name = n /\ h.lock = f.lock /\ h.loads = f.loads
        /\ h.module = m /\ h.at = "unlock"
    BY <1>2, <2>1 DEF Frames
  <2>3. Become(t, h)
    BY <1>1
  <2> HIDE DEF h
  <2> QED BY <2>1, <2>2, <2>3
<1>4. HeadIs(t, g)
  BY <1>2, <1>3, BecomeStep DEF IInv
<1>5. /\ status \in [Names -> Seq(Statuses)] /\ sys_modules \in [Names -> Nat]
      /\ \A x \in Names : Len(status[x]) \in Nat /\ sys_modules[x] <= Len(status[x])
  BY LenProperties DEF IInv, TypeOK, Statuses
<1>6. LET s == [status[n] EXCEPT ![f.module] = "complete"] IN
      /\ s \in Seq(Statuses) /\ Len(s) = Len(status[n])
      /\ \A k \in 1..Len(status[n]) : s[k] = IF k = f.module THEN "complete" ELSE status[n][k]
  BY <1>2, <1>5, ExceptSeq DEF Statuses
<1>7. /\ status' \in [Names -> Seq(Statuses)] /\ sys_modules' = sys_modules
      /\ Len(status'[n]) = Len(status[n])
      /\ \A k \in 1..Len(status[n]) :
           status'[n][k] = IF k = f.module THEN "complete" ELSE status[n][k]
      /\ \A x \in Names \ {n} : status'[x] = status[x]
  BY <1>2, <1>5, <1>6 DEF Complete
<1>8. \A x \in Names : Len(status[x]) <= Len(status'[x]) /\ sys_modules'[x] <= Len(status'[x])
  BY <1>2, <1>5, <1>7
<1>9. FrameSound(g)'
  BY <1>2, <1>3, <1>7 DEF FrameSound, Waiting, Entered
<1>10. ASSUME Straight
       PROVE  /\ \A x \in Names : sys_modules[x] # 0 => sys_modules'[x] # 0
              /\ \A u \in Threads \ {t} : At(u, "load") => sys_modules'[Top(u).name] = 0
              /\ \A x \in Names : \A k \in 1..Len(status[x]) :
                   status[x][k] = "complete" => status'[x][k] = "complete"
              /\ StraightFrame(t, 1)'
              /\ Top(t).at \in LookupPlaces => g.at \in LookupPlaces
              /\ ModulesRun'
  <2>1. stack'[t][1] = g
    BY <1>2, <1>4 DEF HeadIs
  <2>2. ASSUME NEW u \in Threads, At(u, "load") PROVE sys_modules[Top(u).name] = 0
    <3>1. StraightFrame(u, 1) /\ Top(u) = stack[u][1] /\ Top(u).at = "load"
      BY <1>10, <2>2, Innermost
    <3> QED BY <3>1 DEF StraightFrame
  <2>3. \A k \in 1..Len(status[n]) : status'[n][k] = "complete"
    <3> TAKE k \in 1..Len(status[n])
    <3>1. f.loads /\ "ran" \in Entered
      BY <1>2 DEF FrameSound, Entered
    <3>2. status[n][k] = "complete" \/ k = f.module
      BY <1>1, <1>10, <3>1, OthersCompleteOnTop
    <3> QED BY <1>7, <3>2
  <2>4. StraightFrame(t, 1)'
    <3>1. ~gone /\ sys_modules[n] # 0
      BY <1>2, <1>10 DEF StraightFrame
    <3>2. m = sys_modules[n] /\ m \in 1..Len(status[n])
      BY <1>2, <3>1
    <3>3. status'[n][m] = "complete"
      BY <2>3, <3>2
    <3> QED BY <1>3, <1>7, <2>1, <3>1, <3>2, <3>3 DEF StraightFrame, Waiting
  <2>5. ModulesRun'
    <3> SUFFICES ASSUME NEW x \in Names, NEW k \in 1..Len(status'[x]), status'[x][k] # "complete"
                 PROVE  \E u \in Threads : \E i \in 1..Len(stack'[u]) :
                          /\ stack'[u][i].name = x /\ stack'[u][i].module = k
                          /\ stack'[u][i].at \in {"body", "ran"}
      BY DEF ModulesRun
    <3>1. x # n
      BY <1>7, <2>3
    <3>2. PICK u \in Threads : \E i \in 1..Len(stack[u]) :
            stack[u][i].name = x /\ stack[u][i].module = k /\ stack[u][i].at \in {"body", "ran"}
      BY <1>2, <1>7, <1>10, <3>1 DEF StraightSound, ModulesRun
    <3>3. PICK i \in 1..Len(stack[u]) :
            stack[u][i].name = x /\ stack[u][i].module = k /\ stack[u][i].at \in {"body", "ran"}
      BY <3>2
    <3>4. i \in 1..Len(stack'[u]) /\ stack'[u][i] = stack[u][i]
      BY <1>2, <1>4, <3>1, <3>3 DEF HeadIs
    <3> QED BY <3>3, <3>4
  <2>6. \A x \in Names : \A k \in 1..Len(status[x]) :
          status[x][k] = "complete" => status'[x][k] = "complete"
    BY <1>7
  <2> QED BY <1>2, <1>7, <2>2, <2>4, <2>5, <2>6 DEF LookupPlaces
<1>11. UNCHANGED <<program, importLock, locks, moduleLocks, begun>>
  BY DEF Complete
<1>12. /\ g.at \in Waiting <=> f.at \in Waiting
       /\ g.at \in LookupPlaces => f.at \in LookupPlaces
       /\ g.at # "callback" /\ f.at # "callback"
  BY <1>2, <1>3 DEF Waiting, LookupPlaces
<1> QED BY <1>1, <1>2, <1>3, <1>5, <1>7, <1>8, <1>9, <1>10, <1>11, <1>12, GoesOn

LEMMA UninstallKeeps ==
  ASSUME ImportAssumption, IInv, NEW t \in Threads, Uninstall(t)
  PROVE  IInv'
<1> DEFINE f == Top(t)
           n == f.name
<1>1. At(t, "raise") /\ Become(t, [f EXCEPT !.module = 0, !.at = "unlock"])
  BY DEF Uninstall
<1>2. /\ stack[t] # <<>> /\ f \in Frames /\ f.at = "raise" /\ n \in Names
      /\ FrameSound(f) /\ f.module \in Nat /\ f.module <= Len(status[n])
      /\ Len(status[n]) \in Nat
      /\ Straight => StraightFrame(t, 1) /\ f = stack[t][1]
  BY <1>1, Innermost
<1>3. PICK g \in Frames : /\ Become(t, g) /\ g.name = n /\ g.lock = f.lock /\ g.loads = f.loads
                          /\ g.module = 0 /\ g.at = "unlock"
  <2> DEFINE h == [f EXCEPT !.module = 0, !.at = "unlock"]
  <2>1. /\ h \in Frames /\ h.name = n /\ h.lock = f.lock /\ h.loads = f.loads
        /\ h.module = 0 /\ h.at = "unlock"
    BY <1>2 DEF Frames
  <2>2. Become(t, h)
    BY <1>1
  <2> HIDE DEF h
  <2> QED BY <2>1, <2>2
<1>4. ~Straight
  BY <1>2 DEF StraightFrame
<1>5. /\ status \in [Names -> Seq(Statuses)] /\ sys_modules \in [Names -> Nat]
      /\ \A x \in Names : Len(status[x]) \in Nat /\ sys_modules[x] <= Len(status[x])
  BY LenProperties DEF IInv, TypeOK, Statuses
<1>6. f.module \in 1..Len(status[n])
  BY <1>2 DEF FrameSound
<1>7. LET s == [status[n] EXCEPT ![f.module] = "failed"] IN
      s \in Seq(Statuses) /\ Len(s) = Len(status[n])
  BY <1>2, <1>5, <1>6, ExceptSeq DEF Statuses
<1>8. /\ status' \in [Names -> Seq(Statuses)] /\ sys_modules' \in [Names -> Nat]
      /\ \A x \in Names : Len(status[x]) <= Len(status'[x]) /\ sys_modules'[x] <= Len(status'[x])
  <2>1. /\ status' \in [Names -> Seq(Statuses)] /\ sys_modules' \in [Names -> Nat]
        /\ Len(status'[n]) = Len(status[n]) /\ sys_modules'[n] = 0
        /\ \A x \in Names \ {n} : status'[x] = status[x] /\ sys_modules'[x] = sys_modules[x]
    BY <1>2, <1>5, <1>7 DEF Uninstall
  <2>2. \A x \in Names \ {n} : Len(status[x]) <= Len(status'[x]) /\ sys_modules'[x] <= Len(status'[x])
    BY <1>5, <2>1
  <2>3. Len(status[n]) <= Len(status'[n]) /\ sys_modules'[n] <= Len(status'[n])
    BY <1>2, <2>1
  <2> QED BY <2>1, <2>2, <2>3
<1>9. FrameSound(g)'
  <2>1. Len(status'[n]) \in Nat
    BY <1>2, <1>8, LenProperties
  <2> QED BY <1>2, <1>3, <2>1 DEF FrameSound, Waiting, Entered
<1>10. UNCHANGED <<program, importLock, locks, moduleLocks, begun>>
  BY DEF Uninstall
<1>11. /\ g.at \in Waiting <=> f.at \in Waiting
       /\ g.at \in LookupPlaces => f.at \in LookupPlaces
       /\ g.at # "callback" /\ f.at # "callback"
  BY <1>2, <1>3 DEF Waiting, LookupPlaces
<1> QED BY <1>1, <1>2, <1>3, <1>4, <1>8, <1>9, <1>10, <1>11, GoesOn

-----------------------------------------------------------------------------
(* An import begins or ends: frames come and go that have no lock.         *)

\* A frame that plays no part in who has which lock; frames that play the same part.
Idle(f) == f.lock \notin LockIds /\ f.at # "callback"

Alike(e, f) ==
  e.name = f.name /\ e.lock = f.lock /\ e.loads = f.loads /\ (e.at = "callback" <=> f.at = "callback")

SameFrames ==
  \A u \in Threads :
    /\ \A i \in 1..Len(stack'[u]) :
         Idle(stack'[u][i]) \/ \E j \in 1..Len(stack[u]) : Alike(stack'[u][i], stack[u][j])
    /\ \A j \in 1..Len(stack[u]) :
         Idle(stack[u][j]) \/ \E i \in 1..Len(stack'[u]) : Alike(stack'[u][i], stack[u][j])

LEMMA SameFramesNamed ==
  ASSUME LocksNamed, SameFrames, locks' = locks
  PROVE  LocksNamed'
<1> SUFFICES ASSUME NEW u \in Threads, NEW i \in 1..Len(stack'[u]), stack'[u][i].lock \in LockIds
             PROVE  /\ \A n \in Names : locks'[n] = stack'[u][i].lock => stack'[u][i].name = n
                    /\ \A v \in Threads : \A j \in 1..Len(stack'[v]) :
                         stack'[v][j].lock = stack'[u][i].lock => stack'[v][j].name = stack'[u][i].name
  BY DEF LocksNamed
<1>1. PICK k \in 1..Len(stack[u]) : Alike(stack'[u][i], stack[u][k])
  BY DEF SameFrames, Idle
<1>2. /\ stack[u][k].lock = stack'[u][i].lock /\ stack[u][k].name = stack'[u][i].name
  BY <1>1 DEF Alike
<1>3. ASSUME NEW v \in Threads, NEW j \in 1..Len(stack'[v]), stack'[v][j].lock = stack'[u][i].lock
      PROVE  stack'[v][j].name = stack'[u][i].name
  <2>1. PICK h \in 1..Len(stack[v]) : Alike(stack'[v][j], stack[v][h])
    BY <1>3 DEF SameFrames, Idle
  <2>2. stack[v][h].lock = stack[u][k].lock /\ stack[v][h].name = stack'[v][j].name
    BY <1>2, <1>3, <2>1 DEF Alike
  <2>3. stack[v][h].name = stack[u][k].name
    BY <1>2, <2>2 DEF LocksNamed
  <2> QED BY <1>2, <2>2, <2>3
<1>4. \A n \in Names : locks'[n] = stack'[u][i].lock => stack'[u][i].name = n
  BY <1>2 DEF LocksNamed
<1> QED BY <1>3, <1>4

LEMMA SameFramesLoaders ==
  ASSUME LoadersLock, SameFrames, locks' = locks
  PROVE  LoadersLock'
<1> SUFFICES ASSUME NEW u \in Threads, NEW i \in 1..Len(stack'[u]),
                    stack'[u][i].loads, stack'[u][i].lock \in LockIds
             PROVE  /\ locks'[stack'[u][i].name] = stack'[u][i].lock
                    /\ \A v \in Threads : \A j \in 1..Len(stack'[v]) :
                         stack'[v][j].name = stack'[u][i].name =>
                           /\ stack'[v][j].at # "callback"
                           /\ stack'[v][j].lock \in LockIds => stack'[v][j].lock = stack'[u][i].lock
  BY DEF LoadersLock
<1>1. PICK k \in 1..Len(stack[u]) : Alike(stack'[u][i], stack[u][k])
  BY DEF SameFrames, Idle
<1>2. /\ stack[u][k].lock = stack'[u][i].lock /\ stack[u][k].name = stack'[u][i].name
      /\ stack[u][k].loads
  BY <1>1 DEF Alike
<1>3. /\ locks[stack[u][k].name] = stack[u][k].lock
      /\ \A v \in Threads : \A j \in 1..Len(stack[v]) :
           stack[v][j].name = stack[u][k].name =>
             /\ stack[v][j].at # "callback"
             /\ stack[v][j].lock \in LockIds => stack[v][j].lock = stack[u][k].lock
  BY <1>2 DEF LoadersLock
<1>4. ASSUME NEW v \in Threads, NEW j \in 1..Len(stack'[v]), stack'[v][j].name = stack'[u][i].name
      PROVE  /\ stack'[v][j].at # "callback"
             /\ stack'[v][j].lock \in LockIds => stack'[v][j].lock = stack'[u][i].lock
  <2>1. CASE Idle(stack'[v][j])
    BY <2>1 DEF Idle
  <2>2. CASE ~Idle(stack'[v][j])
    <3>1. PICK h \in 1..Len(stack[v]) : Alike(stack'[v][j], stack[v][h])
      BY <2>2 DEF SameFrames
    <3>2. stack[v][h].name = stack[u][k].name
      BY <1>2, <1>4, <3>1 DEF Alike
    <3>3. /\ stack[v][h].at # "callback"
          /\ stack[v][h].lock \in LockIds => stack[v][h].lock = stack[u][k].lock
      BY <1>3, <3>2
    <3> QED BY <1>2, <3>1, <3>3 DEF Alike
  <2> QED BY <2>1, <2>2
<1> QED BY <1>2, <1>3, <1>4

LEMMA SameFramesNoStale ==
  ASSUME NoStaleEntry, SameFrames, locks' = locks, NEW t \in Threads, ~At(t, "callback"),
         \A u \in Threads : DOMAIN stack[u] = 1..Len(stack[u]) /\ DOMAIN stack'[u] = 1..Len(stack'[u]),
         \A u \in Threads \ {t} : stack'[u] = stack[u]
  PROVE  NoStaleEntry'
<1> SUFFICES ASSUME NEW n \in Names
             PROVE  /\ locks'[n] \in LockIds => locks'[n] \in Alive'
                    /\ locks'[n] = Dead =>
                         \E u \in Threads : stack'[u] # <<>> /\ Head(stack'[u]).at = "callback"
                                            /\ Head(stack'[u]).name = n
  BY DEF NoStaleEntry, At, Top
<1>1. ASSUME locks'[n] \in LockIds PROVE locks'[n] \in Alive'
  <2>1. PICK u \in Threads : \E j \in DOMAIN stack[u] : stack[u][j].lock = locks[n]
    BY <1>1 DEF NoStaleEntry, Alive
  <2>2. PICK j \in 1..Len(stack[u]) : stack[u][j].lock = locks[n]
    BY <2>1
  <2>3. PICK i \in 1..Len(stack'[u]) : Alike(stack'[u][i], stack[u][j])
    BY <1>1, <2>2 DEF SameFrames, Idle
  <2>4. i \in DOMAIN stack'[u] /\ stack'[u][i].lock = locks'[n]
    BY <2>2, <2>3 DEF Alike
  <2> QED BY <1>1, <2>4 DEF Alive
<1>2. ASSUME locks'[n] = Dead
      PROVE  \E u \in Threads : stack'[u] # <<>> /\ Head(stack'[u]).at = "callback"
                                /\ Head(stack'[u]).name = n
  <2>1. PICK u \in Threads : At(u, "callback") /\ Top(u).name = n
    BY <1>2 DEF NoStaleEntry
  <2>2. u # t
    BY <2>1
  <2> QED BY <2>1, <2>2 DEF At, Top
<1> QED BY <1>1, <1>2

LEMMA NewFrameType ==
  ASSUME NEW n \in Names
  PROVE  /\ NewFrame(n) \in Frames /\ NewFrame(n).name = n /\ NewFrame(n).at = "begin"
         /\ NewFrame(n).lock = None /\ NewFrame(n).loads = FALSE /\ NewFrame(n).module = 0
         /\ Idle(NewFrame(n))
BY LockAssumption DEF NewFrame, Frames, Idle

\* The body, or the loader, begins another import.
NestIs(t, e, g) ==
  /\ stack' \in [Threads -> Seq(Frames)]
  /\ stack'[t] # <<>> /\ Len(stack'[t]) = Len(stack[t]) + 1 /\ Len(stack[t]) \in Nat
  /\ stack'[t][1] = e /\ Head(stack'[t]) = e /\ stack'[t][2] = g
  /\ \A i \in 1..Len(stack[t]) : i # 1 => stack'[t][i + 1] = stack[t][i]
  /\ \A u \in Threads \ {t} : stack'[u] = stack[u]

LEMMA NestStep ==
  ASSUME TypeOK, NEW t \in Threads, stack[t] # <<>>, NEW g \in Frames, NEW n \in Names, Nest(t, g, n)
  PROVE  NestIs(t, NewFrame(n), g)
<1> DEFINE e == NewFrame(n)
           r == <<e, g>> \o Tail(stack[t])
<1>1. stack[t] \in Seq(Frames) /\ e \in Frames /\ stack \in [Threads -> Seq(Frames)]
  BY NewFrameType DEF TypeOK
<1> HIDE DEF e
<1>2. /\ r \in Seq(Frames) /\ Len(r) = Len(stack[t]) + 1 /\ r # <<>>
      /\ r[1] = e /\ r[2] = g /\ Head(r) = e
      /\ \A i \in 1..Len(stack[t]) : i # 1 => r[i + 1] = stack[t][i]
  BY <1>1, TwoOnTop
<1>3. stack' = [stack EXCEPT ![t] = r]
  BY DEF Nest, e
<1> HIDE DEF r
<1>4. stack' \in [Threads -> Seq(Frames)] /\ stack'[t] = r
      /\ \A u \in Threads \ {t} : stack'[u] = stack[u]
  BY <1>1, <1>2, <1>3
<1>5. Len(stack[t]) \in Nat
  BY Tops
<1> QED BY <1>2, <1>4, <1>5 DEF NestIs, e

LEMMA NestHolds ==
  ASSUME TypeOK, NEW t \in Threads, stack[t] # <<>>, NEW e \in Frames, NEW g \in Frames, NestIs(t, e, g),
         NEW l \in LockIds, Idle(e), HoldsIt(g, l) <=> HoldsIt(Top(t), l), NEW u \in Threads
  PROVE  Cardinality(Holds(stack'[u], l)) = Cardinality(Holds(stack[u], l))
<1>1. CASE u # t
  BY <1>1 DEF NestIs
<1>2. CASE u = t
  <2> DEFINE s == [stack[t] EXCEPT ![1] = g]
  <2>1. stack[t] \in Seq(Frames) /\ stack'[t] \in Seq(Frames)
    BY DEF TypeOK, NestIs
  <2>2. /\ s \in Seq(Frames) /\ Len(s) = Len(stack[t]) /\ s[1] = g
        /\ \A i \in 1..Len(stack[t]) : i # 1 => s[i] = stack[t][i]
    BY <2>1, HeadChanges
  <2>3. Cardinality(Holds(s, l)) = Cardinality(Holds(stack[t], l))
    BY <2>1, HoldsOfHead DEF Top
  <2> HIDE DEF s
  <2>4. ~HoldsIt(stack'[t][1], l)
    BY DEF NestIs, Idle, HoldsIt
  <2>5. \A i \in 1..Len(s) : stack'[t][i + 1] = s[i]
    BY <2>2 DEF NestIs
  <2>6. Len(stack'[t]) = Len(s) + 1
    BY <2>2 DEF NestIs
  <2>7. Cardinality(Holds(stack'[t], l)) = Cardinality(Holds(s, l))
    BY <2>1, <2>2, <2>4, <2>5, <2>6, HoldsShift
  <2> QED BY <1>2, <2>3, <2>7
<1> QED BY <1>1, <1>2

\* Which frame is where, after another import has begun.
LEMMA NestFrames ==
  ASSUME TypeOK, NEW t \in Threads, stack[t] # <<>>, NEW e \in Frames, NEW g \in Frames, NestIs(t, e, g)
  PROVE  \A u \in Threads :
           /\ Len(stack[u]) \in Nat /\ Len(stack'[u]) \in Nat
           /\ DOMAIN stack[u] = 1..Len(stack[u]) /\ DOMAIN stack'[u] = 1..Len(stack'[u])
           /\ u # t => stack'[u] = stack[u]
           /\ Len(stack'[t]) = Len(stack[t]) + 1
           /\ stack'[t][1] = e /\ stack'[t][2] = g /\ Len(stack[t]) >= 1
           /\ \A i \in 1..Len(stack'[t]) : i > 2 => /\ i - 1 \in 1..Len(stack[t])
                                                    /\ stack'[t][i] = stack[t][i-1]
<1> TAKE u \in Threads
<1>1. stack[u] \in Seq(Frames) /\ stack'[u] \in Seq(Frames)
  BY DEF TypeOK, NestIs
<1>2. /\ Len(stack[u]) \in Nat /\ Len(stack'[u]) \in Nat
      /\ DOMAIN stack[u] = 1..Len(stack[u]) /\ DOMAIN stack'[u] = 1..Len(stack'[u])
  BY <1>1, StackType
<1>3. Len(stack[t]) >= 1 /\ Len(stack[t]) \in Nat
  BY Tops
<1>4. ASSUME NEW i \in 1..Len(stack'[t]), i > 2
      PROVE  i - 1 \in 1..Len(stack[t]) /\ stack'[t][i] = stack[t][i-1]
  <2>1. i - 1 \in 1..Len(stack[t]) /\ i - 1 # 1 /\ (i - 1) + 1 = i
    BY <1>3, <1>4 DEF NestIs
  <2>2. stack'[t][(i - 1) + 1] = stack[t][i-1]
    BY <2>1 DEF NestIs
  <2> QED BY <2>1, <2>2
<1> QED BY <1>2, <1>3, <1>4 DEF NestIs

LEMMA NestKeeps ==
  ASSUME ImportAssumption, IInv, NEW t \in Threads, stack[t] # <<>>, NEW g \in Frames, NEW n \in Names,
         Nest(t, g, n),
         n \in Uses(g.name), g.name = Top(t).name, g.lock = Top(t).lock, g.loads = Top(t).loads,
         g.module = Top(t).module, FrameSound(g),
         \/ Top(t).at = "find" /\ g.at = "recheck" /\ n = program.parent[g.name]
         \/ Top(t).at = "body" /\ g.at = "ran",
         UNCHANGED <<program, importLock, locks, moduleLocks, sys_modules, status, begun>>
  PROVE  IInv'
<1> DEFINE e == NewFrame(n)
           f == Top(t)
<1>1. /\ e \in Frames /\ e.name = n /\ e.at = "begin" /\ e.lock = None /\ e.loads = FALSE
      /\ e.module = 0 /\ Idle(e)
  BY NewFrameType
<1> HIDE DEF e
<1>2. NestIs(t, e, g)
  BY NestStep DEF IInv, e
<1>3. \A u \in Threads :
           /\ Len(stack[u]) \in Nat /\ Len(stack'[u]) \in Nat
           /\ DOMAIN stack[u] = 1..Len(stack[u]) /\ DOMAIN stack'[u] = 1..Len(stack'[u])
           /\ u # t => stack'[u] = stack[u]
           /\ Len(stack'[t]) = Len(stack[t]) + 1
           /\ stack'[t][1] = e /\ stack'[t][2] = g /\ Len(stack[t]) >= 1
           /\ \A i \in 1..Len(stack'[t]) : i > 2 => /\ i - 1 \in 1..Len(stack[t])
                                                    /\ stack'[t][i] = stack[t][i-1]
  BY <1>1, <1>2, NestFrames DEF IInv
<1>4. f = stack[t][1] /\ 1 \in 1..Len(stack[t])
  BY Tops DEF IInv
<1>5. TypeOK'
  BY <1>2 DEF IInv, TypeOK, NestIs, importLock, moduleLocks
<1>6. SameFrames
  <2>1. Alike(g, stack[t][1])
    BY <1>4 DEF Alike
  <2>2. ASSUME NEW i \in 1..Len(stack'[t])
        PROVE  Idle(stack'[t][i]) \/ \E j \in 1..Len(stack[t]) : Alike(stack'[t][i], stack[t][j])
    <3>1. i = 1 \/ i = 2 \/ i > 2
      BY <1>3
    <3>2. CASE i = 1
      BY <1>1, <1>3, <3>2
    <3>3. CASE i = 2
      BY <1>3, <1>4, <2>1, <3>3
    <3>4. CASE i > 2
      <4>1. i - 1 \in 1..Len(stack[t]) /\ stack'[t][i] = stack[t][i-1]
        BY <1>3, <3>4
      <4>2. Alike(stack'[t][i], stack[t][i-1])
        BY <4>1 DEF Alike
      <4> QED BY <4>1, <4>2
    <3> QED BY <3>1, <3>2, <3>3, <3>4
  <2>3. ASSUME NEW j \in 1..Len(stack[t])
        PROVE  \E i \in 1..Len(stack'[t]) : Alike(stack'[t][i], stack[t][j])
    <3>1. j + 1 \in 1..Len(stack'[t])
      BY <1>3
    <3>2. CASE j = 1
      BY <1>3, <2>1, <3>1, <3>2
    <3>3. CASE j # 1
      <4>1. j + 1 > 2 /\ (j + 1) - 1 = j
        BY <3>3
      <4>2. stack'[t][j + 1] = stack[t][j]
        BY <1>3, <3>1, <4>1
      <4> QED BY <3>1, <4>2 DEF Alike
    <3> QED BY <3>2, <3>3
  <2>4. ASSUME NEW u \in Threads, u # t, NEW i \in 1..Len(stack[u]) PROVE Alike(stack'[u][i], stack[u][i])
    BY <1>3, <2>4 DEF Alike
  <2> QED BY <1>3, <2>2, <2>3, <2>4 DEF SameFrames
<1>7. LocksNamed' /\ NoStaleEntry'
  <2>1. ~At(t, "callback")
    BY DEF At
  <2>2. NoStaleEntry'
    BY <1>3, <1>6, <2>1, SameFramesNoStale DEF IInv
  <2> QED BY <1>6, <2>2, SameFramesNamed DEF IInv
<1>8. LocksCounted'
  <2> SUFFICES ASSUME NEW l \in LockIds, NEW u \in Threads
               PROVE  Cardinality(Holds(stack'[u], l)) = Cardinality(Holds(stack[u], l))
    BY DEF IInv, LocksCounted, moduleLocks
  <2>1. HoldsIt(g, l) <=> HoldsIt(Top(t), l)
    BY DEF HoldsIt, Waiting
  <2> QED BY <1>1, <1>2, <2>1, NestHolds DEF IInv
<1>9. LookupsLocked' /\ (ImportLockFree => ImportLockFree')
  <2> DEFINE In(u) == At(u, "fetch") \/ At(u, "load") \/ At(u, "wait")
  <2>1. ASSUME NEW u \in Threads PROVE In(u)' <=> In(u)
    <3>1. CASE u = t
      BY <1>1, <1>2, <3>1 DEF At, Top, NestIs
    <3>2. CASE u # t
      BY <1>3, <3>2 DEF At, Top
    <3> QED BY <3>1, <3>2
  <2>2. LookupsLocked'
    BY <2>1 DEF IInv, LookupsLocked, importLock
  <2>3. ASSUME ImportLockFree PROVE ImportLockFree'
    BY <2>1, <2>3 DEF ImportLockFree, importLock
  <2> QED BY <2>2, <2>3
<1>10. StacksSound'
  <2>1. /\ \A x : Needs(x)' = Needs(x)
        /\ \A x : FrameSound(x)' <=> FrameSound(x)
    BY NeedsStay DEF FrameSound
  <2>2. FrameSound(e)
    BY <1>1, LenProperties, LockAssumption DEF FrameSound, Waiting, Entered, IInv, TypeOK
  <2>3. ASSUME NEW i \in 1..Len(stack'[t])
        PROVE  /\ FrameSound(stack'[t][i])
               /\ i > 1 => stack'[t][i].at \in {"recheck", "ran"}
               /\ \A j \in 1..Len(stack'[t]) :
                    i < j => stack'[t][i].name \in Needs(stack'[t][j].name)
    <3>1. \A k \in 1..Len(stack[t]) :
            /\ FrameSound(stack[t][k])
            /\ k > 1 => stack[t][k].at \in {"recheck", "ran"}
            /\ \A j \in 1..Len(stack[t]) : k < j => stack[t][k].name \in Needs(stack[t][j].name)
      BY DEF IInv, StacksSound
    <3>2. g.name \in Names /\ n \in Needs(g.name)
      BY NeedsIsClosed DEF Frames
    <3>3. \A j \in 1..Len(stack'[t]) : j > 2 => g.name \in Needs(stack'[t][j].name)
      <4> TAKE j \in 1..Len(stack'[t])
      <4> HAVE j > 2
      <4>1. j - 1 \in 1..Len(stack[t]) /\ stack'[t][j] = stack[t][j-1] /\ 1 < j - 1
        BY <1>3
      <4>2. stack[t][1].name \in Needs(stack[t][j-1].name)
        BY <1>4, <3>1, <4>1
      <4> QED BY <1>4, <4>1, <4>2
    <3>4. \A j \in 1..Len(stack'[t]) : j > 2 => n \in Needs(stack'[t][j].name)
      <4> TAKE j \in 1..Len(stack'[t])
      <4> HAVE j > 2
      <4>1. stack'[t] \in Seq(Frames)
        BY <1>2 DEF NestIs
      <4>2. stack'[t][j] \in Frames
        BY <4>1, StackType
      <4>3. stack'[t][j].name \in Names /\ g.name \in Needs(stack'[t][j].name)
        BY <3>3, <4>2 DEF Frames
      <4> QED BY <3>2, <4>3, NeedsIsTransitive
    <3>5. CASE i = 1
      <4>1. \A j \in 1..Len(stack'[t]) : i < j => j = 2 \/ j > 2
        BY <3>5
      <4> QED BY <1>1, <1>3, <2>2, <3>2, <3>4, <3>5, <4>1
    <3>6. CASE i = 2
      BY <1>3, <3>3, <3>6
    <3>7. CASE i > 2
      <4>1. i - 1 \in 1..Len(stack[t]) /\ stack'[t][i] = stack[t][i-1] /\ i - 1 > 1
        BY <1>3, <3>7
      <4>2. ASSUME NEW j \in 1..Len(stack'[t]), i < j
            PROVE  stack'[t][i].name \in Needs(stack'[t][j].name)
        <5>1. j > 2 /\ i - 1 < j - 1
          BY <3>7, <4>2
        <5>2. j - 1 \in 1..Len(stack[t]) /\ stack'[t][j] = stack[t][j-1]
          BY <1>3, <5>1
        <5> QED BY <3>1, <4>1, <5>1, <5>2
      <4> QED BY <3>1, <4>1, <4>2
    <3> QED BY <1>3, <3>5, <3>6, <3>7
  <2>4. ASSUME NEW u \in Threads, NEW i \in 1..Len(stack'[u])
        PROVE  /\ FrameSound(stack'[u][i])
               /\ i > 1 => stack'[u][i].at \in {"recheck", "ran"}
               /\ \A j \in 1..Len(stack'[u]) :
                    i < j => stack'[u][i].name \in Needs(stack'[u][j].name)
    <3>1. CASE u = t
      BY <2>3, <3>1
    <3>2. CASE u # t
      BY <1>3, <3>2 DEF IInv, StacksSound
    <3> QED BY <3>1, <3>2
  <2> QED BY <2>1, <2>4 DEF StacksSound
<1>11. ASSUME Straight' PROVE StraightSound'
  <2>1. Straight
    BY <1>11, StraightStays
  <2>2. LoadersLock'
    BY <1>6, <2>1, SameFramesLoaders DEF IInv, StraightSound
  <2>3. ModulesRun'
    <3> SUFFICES ASSUME NEW x \in Names, NEW k \in 1..Len(status[x]), status[x][k] # "complete"
                 PROVE  \E u \in Threads : \E i \in 1..Len(stack'[u]) :
                          /\ stack'[u][i].name = x /\ stack'[u][i].module = k
                          /\ stack'[u][i].at \in {"body", "ran"}
      BY DEF ModulesRun
    <3>1. PICK u \in Threads : \E j \in 1..Len(stack[u]) :
            stack[u][j].name = x /\ stack[u][j].module = k /\ stack[u][j].at \in {"body", "ran"}
      BY <2>1 DEF IInv, StraightSound, ModulesRun
    <3>2. PICK j \in 1..Len(stack[u]) :
            stack[u][j].name = x /\ stack[u][j].module = k /\ stack[u][j].at \in {"body", "ran"}
      BY <3>1
    <3>3. CASE u # t
      BY <1>3, <3>2, <3>3
    <3>4. CASE u = t /\ j = 1
      <4>1. 2 \in 1..Len(stack'[t]) /\ stack'[t][2] = g
        BY <1>3
      <4> QED BY <1>4, <3>2, <3>4, <4>1
    <3>5. CASE u = t /\ j # 1
      <4>1. j + 1 \in 1..Len(stack'[t]) /\ j + 1 > 2 /\ (j + 1) - 1 = j
        BY <1>3, <3>5
      <4>2. stack'[t][j + 1] = stack[t][j]
        BY <1>3, <4>1
      <4> QED BY <3>2, <3>5, <4>1, <4>2
    <3> QED BY <3>3, <3>4, <3>5
  <2>4. StraightFrames'
    <3>1. \A u \in Threads : \A i \in 1..Len(stack[u]) : StraightFrame(u, i)
      BY <2>1 DEF IInv, StraightSound, StraightFrames
    <3> SUFFICES ASSUME NEW u \in Threads, NEW i \in 1..Len(stack'[u]) PROVE StraightFrame(u, i)'
      BY DEF StraightFrames
    <3>2. CASE u # t
      BY <1>3, <3>1, <3>2 DEF StraightFrame
    <3>3. CASE u = t /\ i = 1
      BY <1>1, <1>3, <3>3 DEF StraightFrame, Waiting
    <3>4. CASE u = t /\ i = 2
      <4>1. StraightFrame(t, 1)
        BY <1>4, <3>1
      <4>2. stack'[t][2] = g /\ stack'[t][2-1].name = n
        BY <1>1, <1>3
      <4> QED BY <1>4, <3>4, <4>1, <4>2 DEF StraightFrame, Waiting
    <3>5. CASE u = t /\ i > 2
      <4>1. i - 1 \in 1..Len(stack[t]) /\ stack'[t][i] = stack[t][i-1] /\ i - 1 # 1 /\ i # 1
        BY <1>3, <3>5
      <4>2. stack'[t][i-1].name = stack[t][(i-1)-1].name
        <5>1. CASE i = 3
          BY <1>3, <1>4, <5>1
        <5>2. CASE i > 3
          <6>1. i - 1 \in 1..Len(stack'[t]) /\ i - 1 > 2
            BY <1>3, <3>5, <5>2
          <6> QED BY <1>3, <6>1
        <5> QED BY <3>5, <5>1, <5>2
      <4>3. StraightFrame(t, i - 1)
        BY <3>1, <4>1
      <4> QED BY <3>5, <4>1, <4>2, <4>3 DEF StraightFrame
    <3> QED BY <1>3, <3>2, <3>3, <3>4, <3>5
  <2> QED BY <1>9, <2>1, <2>2, <2>3, <2>4 DEF IInv, StraightSound
<1> QED BY <1>5, <1>7, <1>8, <1>9, <1>10, <1>11 DEF IInv

LEMMA FindParentKeeps ==
  ASSUME ImportAssumption, IInv, NEW t \in Threads, FindParent(t)
  PROVE  IInv'
<1> DEFINE f == Top(t)
           n == f.name
           p == program.parent[n]
           place == IF p = None THEN "spec" ELSE "recheck"
           h == [f EXCEPT !.at = place]
<1>1. At(t, "find")
  BY DEF FindParent
<1>2. /\ stack[t] # <<>> /\ f \in Frames /\ f.at = "find" /\ n \in Names
      /\ FrameSound(f) /\ f = stack[t][1] /\ 1 \in 1..Len(stack[t])
      /\ p \in Names \cup {None} /\ None \notin Names
      /\ Straight => StraightFrame(t, 1)
  BY <1>1, Innermost
<1>3. /\ h \in Frames /\ h.name = n /\ h.lock = f.lock /\ h.loads = f.loads
      /\ h.module = f.module /\ h.at = place
  BY <1>2 DEF Frames
<1>4. IF p # None /\ sys_modules[p] = 0 THEN Nest(t, h, p) ELSE Become(t, h)
  BY DEF FindParent, Goto
<1> HIDE DEF h
<1>5. FrameSound(h)
  BY <1>2, <1>3 DEF FrameSound, Waiting, Entered
<1>6. UNCHANGED <<program, importLock, locks, moduleLocks, sys_modules, status, begun>>
  BY DEF FindParent
<1>7. CASE p # None /\ sys_modules[p] = 0
  <2>1. p \in Uses(h.name) /\ p \in Names
    BY <1>2, <1>3, <1>7 DEF Uses
  <2>2. Top(t).at = "find" /\ h.at = "recheck" /\ p = program.parent[h.name]
    BY <1>2, <1>3, <1>7
  <2> QED BY <1>2, <1>3, <1>4, <1>5, <1>6, <1>7, <2>1, <2>2, NestKeeps
<1>8. CASE ~(p # None /\ sys_modules[p] = 0)
  <2>1. Become(t, h)
    BY <1>4, <1>8
  <2>2. HeadIs(t, h)
    BY <1>2, <1>3, <2>1, BecomeStep DEF IInv
  <2>3. ASSUME Straight PROVE StraightFrame(t, 1)'
    <3>1. stack'[t][1] = h
      BY <1>2, <2>2 DEF HeadIs
    <3> QED BY <1>2, <1>3, <1>6, <1>8, <2>3, <3>1 DEF StraightFrame, Waiting
  <2>4. /\ h.at \in Waiting <=> f.at \in Waiting
        /\ h.at \in LookupPlaces => f.at \in LookupPlaces
        /\ h.at # "callback" /\ f.at # "callback"
    BY <1>2, <1>3 DEF Waiting, LookupPlaces
  <2> QED BY <1>2, <1>3, <1>5, <1>6, <2>1, <2>3, <2>4, OnlyGoesOn DEF LookupPlaces
<1> QED BY <1>7, <1>8

LEMMA RunBodyKeeps ==
  ASSUME ImportAssumption, IInv, NEW t \in Threads, RunBody(t)
  PROVE  IInv'
<1> DEFINE f == Top(t)
           n == f.name
           b == program.imports[n]
           h == [f EXCEPT !.at = "ran"]
<1>1. At(t, "body")
  BY DEF RunBody
<1>2. /\ stack[t] # <<>> /\ f \in Frames /\ f.at = "body" /\ n \in Names
      /\ FrameSound(f) /\ f = stack[t][1] /\ 1 \in 1..Len(stack[t])
      /\ b \in Names \cup {None}
      /\ Straight => StraightFrame(t, 1)
  BY <1>1, Innermost
<1>3. /\ h \in Frames /\ h.name = n /\ h.lock = f.lock /\ h.loads = f.loads
      /\ h.module = f.module /\ h.at = "ran"
  BY <1>2 DEF Frames
<1>4. IF b # None THEN Nest(t, h, b) ELSE Become(t, h)
  BY DEF RunBody, Goto
<1> HIDE DEF h
<1>5. FrameSound(h)
  BY <1>2, <1>3 DEF FrameSound, Waiting, Entered
<1>6. UNCHANGED <<program, importLock, locks, moduleLocks, sys_modules, status, begun>>
  BY DEF RunBody
<1>7. CASE b # None
  <2>1. b \in Uses(h.name) /\ b \in Names
    BY <1>2, <1>3, <1>7 DEF Uses
  <2>2. Top(t).at = "body" /\ h.at = "ran"
    BY <1>2, <1>3
  <2> QED BY <1>2, <1>3, <1>4, <1>5, <1>6, <1>7, <2>1, <2>2, NestKeeps
<1>8. CASE b = None
  <2>1. Become(t, h)
    BY <1>4, <1>8
  <2>2. HeadIs(t, h)
    BY <1>2, <1>3, <2>1, BecomeStep DEF IInv
  <2>3. ASSUME Straight PROVE StraightFrame(t, 1)'
    <3>1. stack'[t][1] = h
      BY <1>2, <2>2 DEF HeadIs
    <3> QED BY <1>2, <1>3, <1>6, <2>3, <3>1 DEF StraightFrame, Waiting
  <2>4. /\ h.at \in Waiting <=> f.at \in Waiting
        /\ h.at \in LookupPlaces => f.at \in LookupPlaces
        /\ h.at # "callback" /\ f.at # "callback"
        /\ f.at \in LookupPlaces => h.at \in LookupPlaces
        /\ f.at \in {"body", "ran"} => h.at \in {"body", "ran"} /\ h.module = f.module
    BY <1>2, <1>3 DEF Waiting, LookupPlaces
  <2> QED BY <1>2, <1>3, <1>5, <1>6, <2>1, <2>3, <2>4, OnlyGoesOn
<1> QED BY <1>7, <1>8

LEMMA ImportKeeps ==
  ASSUME ImportAssumption, IInv, NEW t \in Threads, NEW n \in Names, Import(t, n)
  PROVE  IInv'
<1> DEFINE e == NewFrame(n)
<1>1. /\ e \in Frames /\ e.name = n /\ e.at = "begin" /\ e.lock = None /\ e.loads = FALSE
      /\ e.module = 0 /\ Idle(e)
  BY NewFrameType
<1>2. /\ stack[t] = <<>> /\ stack' = [stack EXCEPT ![t] = <<e>>]
      /\ begun' = [begun EXCEPT ![t] = @ + 1]
      /\ UNCHANGED <<program, importLock, locks, moduleLocks, sys_modules, status>>
  BY DEF Import
<1> HIDE DEF e
<1>3. <<e>> \in Seq(Frames) /\ Len(<<e>>) = 1 /\ <<e>>[1] = e /\ Head(<<e>>) = e /\ <<e>> # <<>>
  BY <1>1
<1>4. /\ stack' \in [Threads -> Seq(Frames)] /\ stack'[t] = <<e>>
      /\ \A u \in Threads \ {t} : stack'[u] = stack[u]
  BY <1>1, <1>2, <1>3 DEF IInv, TypeOK
<1>5. \A u \in Threads : /\ DOMAIN stack[u] = 1..Len(stack[u]) /\ DOMAIN stack'[u] = 1..Len(stack'[u])
                         /\ Len(stack[u]) \in Nat /\ Len(stack'[u]) \in Nat
  BY <1>4, StackType DEF IInv, TypeOK
<1>6. Len(stack[t]) = 0 /\ \A i \in 1..Len(stack'[t]) : i = 1 /\ stack'[t][i] = e
  BY <1>2, <1>3, <1>4, Tops DEF IInv
<1>7. TypeOK'
  BY <1>2, <1>4 DEF IInv, TypeOK, importLock, moduleLocks
<1>8. SameFrames
  <2>1. ASSUME NEW u \in Threads, u # t, NEW i \in 1..Len(stack[u]) PROVE Alike(stack'[u][i], stack[u][i])
    BY <1>4, <2>1 DEF Alike
  <2> QED BY <1>1, <1>4, <1>6, <2>1 DEF SameFrames
<1>9. LocksNamed' /\ NoStaleEntry'
  <2>1. ~At(t, "callback")
    BY <1>2 DEF At
  <2>2. NoStaleEntry'
    BY <1>2, <1>4, <1>5, <1>8, <2>1, SameFramesNoStale DEF IInv
  <2> QED BY <1>2, <1>8, <2>2, SameFramesNamed DEF IInv
<1>10. LocksCounted'
  <2> SUFFICES ASSUME NEW l \in LockIds, NEW u \in Threads
               PROVE  Cardinality(Holds(stack'[u], l)) = Cardinality(Holds(stack[u], l))
    BY <1>2 DEF IInv, LocksCounted, moduleLocks
  <2>1. CASE u # t
    BY <1>4, <2>1
  <2>2. CASE u = t
    <3>1. Holds(stack[t], l) = {} /\ Holds(stack'[t], l) = {}
      BY <1>1, <1>5, <1>6 DEF Holds, Idle
    <3> QED BY <2>2, <3>1
  <2> QED BY <2>1, <2>2
<1>11. LookupsLocked' /\ (ImportLockFree => ImportLockFree')
  <2> DEFINE In(u) == At(u, "fetch") \/ At(u, "load") \/ At(u, "wait")
  <2>1. ASSUME NEW u \in Threads PROVE In(u)' <=> In(u)
    BY <1>1, <1>2, <1>3, <1>4 DEF At, Top
  <2>2. LookupsLocked'
    BY <1>2, <2>1 DEF IInv, LookupsLocked, importLock
  <2>3. ASSUME ImportLockFree PROVE ImportLockFree'
    BY <1>2, <2>1, <2>3 DEF ImportLockFree, importLock
  <2> QED BY <2>2, <2>3
<1>12. StacksSound'
  <2>1. /\ \A x : Needs(x)' = Needs(x)
        /\ \A x : FrameSound(x)' <=> FrameSound(x)
    BY <1>2, NeedsStay DEF FrameSound
  <2>2. FrameSound(e)
    BY <1>1, LenProperties, LockAssumption DEF FrameSound, Waiting, Entered, IInv, TypeOK
  <2>3. ASSUME NEW u \in Threads, NEW i \in 1..Len(stack'[u])
        PROVE  /\ FrameSound(stack'[u][i])
               /\ i > 1 => stack'[u][i].at \in {"recheck", "ran"}
               /\ \A j \in 1..Len(stack'[u]) :
                    i < j => stack'[u][i].name \in Needs(stack'[u][j].name)
    <3>1. CASE u = t
      BY <1>6, <2>2, <3>1
    <3>2. CASE u # t
      BY <1>4, <3>2 DEF IInv, StacksSound
    <3> QED BY <3>1, <3>2
  <2> QED BY <2>1, <2>3 DEF StacksSound
<1>13. ASSUME Straight' PROVE StraightSound'
  <2>1. Straight
    BY <1>2, <1>13, StraightStays
  <2>2. LoadersLock'
    BY <1>2, <1>8, <2>1, SameFramesLoaders DEF IInv, StraightSound
  <2>3. ModulesRun'
    <3> SUFFICES ASSUME NEW x \in Names, NEW k \in 1..Len(status[x]), status[x][k] # "complete"
                 PROVE  \E u \in Threads : \E i \in 1..Len(stack'[u]) :
                          /\ stack'[u][i].name = x /\ stack'[u][i].module = k
                          /\ stack'[u][i].at \in {"body", "ran"}
      BY <1>2 DEF ModulesRun
    <3>1. PICK u \in Threads : \E j \in 1..Len(stack[u]) :
            stack[u][j].name = x /\ stack[u][j].module = k /\ stack[u][j].at \in {"body", "ran"}
      BY <2>1 DEF IInv, StraightSound, ModulesRun
    <3>2. u # t
      BY <1>6, <3>1
    <3> QED BY <1>4, <3>1, <3>2
  <2>4. StraightFrames'
    <3>1. \A u \in Threads : \A i \in 1..Len(stack[u]) : StraightFrame(u, i)
      BY <2>1 DEF IInv, StraightSound, StraightFrames
    <3> SUFFICES ASSUME NEW u \in Threads, NEW i \in 1..Len(stack'[u]) PROVE StraightFrame(u, i)'
      BY DEF StraightFrames
    <3>2. CASE u # t
      BY <1>2, <1>4, <3>1, <3>2 DEF StraightFrame
    <3>3. CASE u = t
      BY <1>1, <1>6, <3>3 DEF StraightFrame, Waiting
    <3> QED BY <3>2, <3>3
  <2> QED BY <1>11, <2>1, <2>2, <2>3, <2>4 DEF IInv, StraightSound
<1> QED BY <1>7, <1>9, <1>10, <1>11, <1>12, <1>13 DEF IInv

\* The importer of t's innermost import goes on, or fails as well.
ReturnIs(t, d) ==
  /\ stack' \in [Threads -> Seq(Frames)]
  /\ Len(stack[t]) = Len(stack'[t]) + 1 /\ Len(stack'[t]) \in Nat
  /\ \A i \in 1..Len(stack'[t]) : i # 1 => stack'[t][i] = stack[t][i + 1]
  /\ Len(stack'[t]) >= 1 => stack'[t][1] = d /\ Head(stack'[t]) = d
  /\ \A u \in Threads \ {t} : stack'[u] = stack[u]
  /\ \A u \in Threads : DOMAIN stack[u] = 1..Len(stack[u]) /\ DOMAIN stack'[u] = 1..Len(stack'[u])

LEMMA ReturnStep ==
  ASSUME ImportAssumption, IInv, NEW t \in Threads, Return(t)
  PROVE  \E d :
    /\ ReturnIs(t, d)
    /\ \A l \in LockIds, u \in Threads :
         Cardinality(Holds(stack'[u], l)) = Cardinality(Holds(stack[u], l))
    /\ Len(stack'[t]) >= 1 =>
         LET f == stack[t][2] IN
         /\ 2 \in 1..Len(stack[t]) /\ f.at \in {"recheck", "ran"} /\ d \in Frames
         /\ d.name = f.name /\ d.lock = f.lock /\ d.loads = f.loads /\ d.module = f.module
         /\ Top(t).module # 0 => d.at = f.at
         /\ Top(t).module = 0 => d.at = IF f.at = "ran" THEN "raise" ELSE "unlock"
<1> DEFINE s == stack[t]
           r == Tail(s)
           place == IF r[1].at = "ran" THEN "raise" ELSE "unlock"
           q == [r EXCEPT ![1].at = place]
           fails == r # <<>> /\ Top(t).module = 0
<1>1. At(t, "return") /\ stack' = [stack EXCEPT ![t] = IF fails THEN q ELSE r]
  BY DEF Return
<1>2. /\ s \in Seq(Frames) /\ s # <<>> /\ s[1].lock \notin LockIds
      /\ stack \in [Threads -> Seq(Frames)]
  <2>1. s[1] = Top(t) /\ Top(t).at = "return" /\ FrameSound(Top(t)) /\ stack[t] # <<>>
    BY <1>1, Innermost
  <2> QED BY <2>1 DEF FrameSound, Waiting, Entered, IInv, TypeOK
<1>3. /\ r \in Seq(Frames) /\ Len(r) = Len(s) - 1 /\ Len(s) \in Nat
      /\ \A i \in 1..Len(r) : r[i] = s[i + 1] /\ i + 1 \in 1..Len(s)
  BY <1>2, TopIsPopped, StackType
<1>4. \A l \in LockIds : Cardinality(Holds(r, l)) = Cardinality(Holds(s, l))
  <2> TAKE l \in LockIds
  <2>1. Len(s) = Len(r) + 1 /\ \A i \in 1..Len(r) : s[i + 1] = r[i]
    BY <1>3
  <2>2. ~HoldsIt(s[1], l)
    BY <1>2 DEF HoldsIt
  <2> HIDE DEF r, s
  <2> QED BY <1>2, <1>3, <2>1, <2>2, HoldsShift
<1> HIDE DEF r, s
<1>5. CASE ~fails
  <2>1. /\ stack' \in [Threads -> Seq(Frames)] /\ stack'[t] = r
        /\ \A u \in Threads \ {t} : stack'[u] = stack[u]
    BY <1>1, <1>2, <1>3, <1>5
  <2>2. /\ DOMAIN r = 1..Len(r) /\ Len(r) \in Nat /\ (Len(r) >= 1 => Head(r) = r[1])
    BY <1>3, StackType
  <2>3. \A u \in Threads : DOMAIN stack[u] = 1..Len(stack[u]) /\ DOMAIN stack'[u] = 1..Len(stack'[u])
    BY <1>2, <2>1, StackType
  <2>4. ReturnIs(t, r[1])
    BY <1>3, <2>1, <2>2, <2>3 DEF ReturnIs, s
  <2>5. ASSUME NEW l \in LockIds, NEW u \in Threads
        PROVE  Cardinality(Holds(stack'[u], l)) = Cardinality(Holds(stack[u], l))
    BY <1>4, <2>1 DEF s
  <2>6. ASSUME Len(stack'[t]) >= 1
        PROVE  /\ 2 \in 1..Len(stack[t]) /\ stack[t][2].at \in {"recheck", "ran"} /\ r[1] \in Frames
               /\ r[1] = stack[t][2] /\ Top(t).module # 0
    <3>1. 1 \in 1..Len(r) /\ r # <<>>
      BY <1>3, <2>1, <2>2, <2>6, StackType
    <3>2. r[1] = s[1 + 1] /\ 1 + 1 \in 1..Len(s) /\ r[1] \in Frames
      BY <1>3, <3>1, StackType
    <3> QED BY <1>5, <3>1, <3>2 DEF IInv, StacksSound, s
  <2> QED BY <2>4, <2>5, <2>6
<1>6. CASE fails
  <2>1. Len(r) >= 1 /\ 1 \in 1..Len(r) /\ Head(r) = r[1] /\ r[1] \in Frames /\ r # <<>>
    BY <1>3, <1>6, StackType
  <2>2. r[1] = s[2] /\ 2 \in 1..Len(s)
    BY <1>3, <2>1
  <2> DEFINE d == [r[1] EXCEPT !.at = IF r[1].at = "ran" THEN "raise" ELSE "unlock"]
  <2>3. /\ d \in Frames /\ d.name = r[1].name /\ d.lock = r[1].lock /\ d.loads = r[1].loads
        /\ d.module = r[1].module /\ d.at = IF r[1].at = "ran" THEN "raise" ELSE "unlock"
    BY <2>1 DEF Frames
  <2>4. q = [r EXCEPT ![1] = d]
    OBVIOUS
  <2> HIDE DEF d, q
  <2>5. /\ q \in Seq(Frames) /\ q # <<>> /\ Len(q) = Len(r) /\ q[1] = d /\ Head(q) = d
        /\ \A i \in 1..Len(r) : i # 1 => q[i] = r[i]
    BY <1>3, <2>1, <2>3, <2>4, HeadChanges
  <2>6. /\ stack' \in [Threads -> Seq(Frames)] /\ stack'[t] = q
        /\ \A u \in Threads \ {t} : stack'[u] = stack[u]
    BY <1>1, <1>2, <1>3, <1>6, <2>5
  <2>7. \A u \in Threads : DOMAIN stack[u] = 1..Len(stack[u]) /\ DOMAIN stack'[u] = 1..Len(stack'[u])
    BY <1>2, <2>6, StackType
  <2>8. ReturnIs(t, d)
    <3>1. \A i \in 1..Len(q) : i # 1 => q[i] = s[i + 1]
      BY <1>3, <2>5
    <3>2. Len(s) = Len(q) + 1 /\ Len(q) \in Nat
      BY <1>3, <2>5
    <3> QED BY <2>5, <2>6, <2>7, <3>1, <3>2 DEF ReturnIs, s
  <2>9. stack[t][2].at \in {"recheck", "ran"}
    BY <2>2 DEF IInv, StacksSound, s
  <2>10. ASSUME NEW l \in LockIds, NEW u \in Threads
         PROVE  Cardinality(Holds(stack'[u], l)) = Cardinality(Holds(stack[u], l))
    <3>1. CASE u # t
      BY <2>6, <3>1
    <3>2. CASE u = t
      <4>1. HoldsIt(d, l) <=> HoldsIt(Head(r), l)
        BY <2>1, <2>2, <2>3, <2>9 DEF HoldsIt, Waiting, s
      <4>2. Cardinality(Holds([r EXCEPT ![1] = d], l)) = Cardinality(Holds(r, l))
        BY <1>3, <2>1, <2>3, <4>1, HoldsOfHeadSame
      <4>3. Cardinality(Holds(q, l)) = Cardinality(Holds(r, l))
        BY <2>4, <4>2
      <4> QED BY <1>4, <2>6, <3>2, <4>3 DEF s
    <3> QED BY <3>1, <3>2
  <2> QED BY <1>6, <2>2, <2>3, <2>8, <2>9, <2>10 DEF s
<1> QED BY <1>5, <1>6

LEMMA ReturnKeeps ==
  ASSUME ImportAssumption, IInv, NEW t \in Threads, Return(t)
  PROVE  IInv'
<1> DEFINE f == stack[t][2]
<1>1. PICK d :
    /\ ReturnIs(t, d)
    /\ \A l \in LockIds, u \in Threads :
         Cardinality(Holds(stack'[u], l)) = Cardinality(Holds(stack[u], l))
    /\ Len(stack'[t]) >= 1 =>
         /\ 2 \in 1..Len(stack[t]) /\ f.at \in {"recheck", "ran"} /\ d \in Frames
         /\ d.name = f.name /\ d.lock = f.lock /\ d.loads = f.loads /\ d.module = f.module
         /\ Top(t).module # 0 => d.at = f.at
         /\ Top(t).module = 0 => d.at = IF f.at = "ran" THEN "raise" ELSE "unlock"
  BY ReturnStep
<1>2. /\ At(t, "return")
      /\ UNCHANGED <<program, importLock, locks, moduleLocks, sys_modules, status, begun>>
  BY DEF Return
<1>3. /\ Top(t) = stack[t][1] /\ Top(t).at = "return" /\ stack[t] # <<>> /\ 1 \in 1..Len(stack[t])
      /\ FrameSound(Top(t)) /\ Idle(Top(t))
      /\ Straight => StraightSound /\ Top(t).module # 0 /\ sys_modules[Top(t).name] # 0
  <2>1. /\ Top(t) = stack[t][1] /\ Top(t).at = "return" /\ FrameSound(Top(t)) /\ stack[t] # <<>>
        /\ 1 \in 1..Len(stack[t])
        /\ Straight => StraightSound /\ StraightFrame(t, 1)
    BY <1>2, Innermost
  <2> QED BY <2>1 DEF FrameSound, Idle, Waiting, Entered, StraightFrame
<1>4. /\ Len(stack[t]) = Len(stack'[t]) + 1 /\ Len(stack'[t]) \in Nat
      /\ \A i \in 1..Len(stack'[t]) : /\ i + 1 \in 1..Len(stack[t])
                                      /\ i # 1 => stack'[t][i] = stack[t][i + 1]
                                      /\ i = 1 => stack'[t][i] = d /\ i + 1 = 2
                                      /\ i >= 1 /\ Len(stack'[t]) >= 1
      /\ \A u \in Threads \ {t} : stack'[u] = stack[u]
      /\ \A u \in Threads : /\ DOMAIN stack[u] = 1..Len(stack[u])
                            /\ DOMAIN stack'[u] = 1..Len(stack'[u])
  BY <1>1 DEF ReturnIs
<1>5. TypeOK'
  BY <1>1, <1>2 DEF IInv, TypeOK, ReturnIs, importLock, moduleLocks
<1>6. SameFrames
  <2>1. ASSUME NEW i \in 1..Len(stack'[t]) PROVE Alike(stack'[t][i], stack[t][i + 1])
    <3>1. CASE i = 1
      BY <1>1, <1>4, <3>1 DEF Alike
    <3>2. CASE i # 1
      BY <1>4, <3>2 DEF Alike
    <3> QED BY <3>1, <3>2
  <2>2. ASSUME NEW j \in 1..Len(stack[t])
        PROVE  Idle(stack[t][j]) \/ \E i \in 1..Len(stack'[t]) : Alike(stack'[t][i], stack[t][j])
    <3>1. CASE j = 1
      BY <1>3, <3>1
    <3>2. CASE j # 1
      <4>1. j - 1 \in 1..Len(stack'[t]) /\ (j - 1) + 1 = j
        BY <1>4, <3>2
      <4> QED BY <2>1, <4>1
    <3> QED BY <3>1, <3>2
  <2>3. ASSUME NEW u \in Threads, u # t, NEW i \in 1..Len(stack[u]) PROVE Alike(stack'[u][i], stack[u][i])
    BY <1>4, <2>3 DEF Alike
  <2>4. ASSUME NEW i \in 1..Len(stack'[t]) PROVE \E j \in 1..Len(stack[t]) : Alike(stack'[t][i], stack[t][j])
    BY <1>4, <2>1
  <2> QED BY <1>4, <2>2, <2>3, <2>4 DEF SameFrames
<1>7. LocksNamed' /\ NoStaleEntry'
  <2>1. ~At(t, "callback")
    BY <1>2 DEF At
  <2>2. NoStaleEntry'
    BY <1>2, <1>4, <1>6, <2>1, SameFramesNoStale DEF IInv
  <2> QED BY <1>2, <1>6, <2>2, SameFramesNamed DEF IInv
<1>8. LocksCounted'
  BY <1>1, <1>2 DEF IInv, LocksCounted, moduleLocks
<1>9. LookupsLocked' /\ (ImportLockFree => ImportLockFree')
  <2> DEFINE In(u) == At(u, "fetch") \/ At(u, "load") \/ At(u, "wait")
  <2>1. ASSUME NEW u \in Threads PROVE In(u)' <=> In(u)
    <3>1. CASE u = t
      <4>1. ~In(t)
        BY <1>2 DEF At
      <4>2. stack'[t] # <<>> => Len(stack'[t]) >= 1
        BY <1>1, StackType DEF ReturnIs
      <4>3. ~In(t)'
        BY <1>1, <4>2 DEF At, Top, ReturnIs
      <4> QED BY <3>1, <4>1, <4>3
    <3>2. CASE u # t
      BY <1>4, <3>2 DEF At, Top
    <3> QED BY <3>1, <3>2
  <2>2. LookupsLocked'
    BY <1>2, <2>1 DEF IInv, LookupsLocked, importLock
  <2>3. ASSUME ImportLockFree PROVE ImportLockFree'
    BY <1>2, <2>1, <2>3 DEF ImportLockFree, importLock
  <2> QED BY <2>2, <2>3
<1>10. StacksSound'
  <2>1. /\ \A x : Needs(x)' = Needs(x)
        /\ \A x : FrameSound(x)' <=> FrameSound(x)
    BY <1>2, NeedsStay DEF FrameSound
  <2>2. \A k \in 1..Len(stack[t]) :
            /\ FrameSound(stack[t][k])
            /\ k > 1 => stack[t][k].at \in {"recheck", "ran"}
            /\ \A j \in 1..Len(stack[t]) : k < j => stack[t][k].name \in Needs(stack[t][j].name)
    BY DEF IInv, StacksSound
  <2>3. ASSUME Len(stack'[t]) >= 1 PROVE FrameSound(d)
    <3>1. FrameSound(f) /\ f.at \in {"recheck", "ran"}
      BY <1>1, <2>2, <2>3
    <3> QED BY <1>1, <2>3, <3>1 DEF FrameSound, Waiting, Entered
  <2>4. \A i \in 1..Len(stack'[t]) : stack'[t][i].name = stack[t][i + 1].name
    BY <1>1, <1>4
  <2>5. ASSUME NEW u \in Threads, NEW i \in 1..Len(stack'[u])
        PROVE  /\ FrameSound(stack'[u][i])
               /\ i > 1 => stack'[u][i].at \in {"recheck", "ran"}
               /\ \A j \in 1..Len(stack'[u]) :
                    i < j => stack'[u][i].name \in Needs(stack'[u][j].name)
    <3>1. CASE u = t
      <4>1. FrameSound(stack'[t][i]) /\ (i > 1 => stack'[t][i].at \in {"recheck", "ran"})
        <5>1. CASE i = 1
          BY <1>4, <2>3, <3>1, <5>1
        <5>2. CASE i # 1
          <6>1. i + 1 \in 1..Len(stack[t]) /\ stack'[t][i] = stack[t][i + 1] /\ i + 1 > 1
            BY <1>4, <3>1, <5>2
          <6> QED BY <2>2, <6>1
        <5> QED BY <5>1, <5>2
      <4>2. ASSUME NEW j \in 1..Len(stack'[t]), i < j
            PROVE  stack'[t][i].name \in Needs(stack'[t][j].name)
        <5>1. i + 1 \in 1..Len(stack[t]) /\ j + 1 \in 1..Len(stack[t]) /\ i + 1 < j + 1
          BY <1>4, <3>1, <4>2
        <5>2. stack[t][i + 1].name \in Needs(stack[t][j + 1].name)
          BY <2>2, <5>1
        <5> QED BY <2>4, <3>1, <5>2
      <4> QED BY <3>1, <4>1, <4>2
    <3>2. CASE u # t
      BY <1>4, <3>2 DEF IInv, StacksSound
    <3> QED BY <3>1, <3>2
  <2> QED BY <2>1, <2>5 DEF StacksSound
<1>11. ASSUME Straight' PROVE StraightSound'
  <2>1. Straight
    BY <1>2, <1>11, StraightStays
  <2>2. LoadersLock'
    BY <1>2, <1>6, <2>1, SameFramesLoaders DEF IInv, StraightSound
  <2>3. \A i \in 1..Len(stack'[t]) :
          /\ stack'[t][i].at = stack[t][i + 1].at /\ stack'[t][i].module = stack[t][i + 1].module
          /\ stack'[t][i].name = stack[t][i + 1].name /\ stack'[t][i].loads = stack[t][i + 1].loads
    BY <1>1, <1>3, <1>4, <2>1
  <2>4. ModulesRun'
    <3> SUFFICES ASSUME NEW x \in Names, NEW k \in 1..Len(status[x]), status[x][k] # "complete"
                 PROVE  \E u \in Threads : \E i \in 1..Len(stack'[u]) :
                          /\ stack'[u][i].name = x /\ stack'[u][i].module = k
                          /\ stack'[u][i].at \in {"body", "ran"}
      BY <1>2 DEF ModulesRun
    <3>1. PICK u \in Threads : \E j \in 1..Len(stack[u]) :
            stack[u][j].name = x /\ stack[u][j].module = k /\ stack[u][j].at \in {"body", "ran"}
      BY <2>1 DEF IInv, StraightSound, ModulesRun
    <3>2. PICK j \in 1..Len(stack[u]) :
            stack[u][j].name = x /\ stack[u][j].module = k /\ stack[u][j].at \in {"body", "ran"}
      BY <3>1
    <3>3. CASE u # t
      BY <1>4, <3>2, <3>3
    <3>4. CASE u = t
      <4>1. j # 1
        BY <1>3, <3>2, <3>4
      <4>2. j - 1 \in 1..Len(stack'[t]) /\ (j - 1) + 1 = j
        BY <1>4, <3>4, <4>1
      <4>3. /\ stack'[t][j - 1].name = stack[t][(j - 1) + 1].name
            /\ stack'[t][j - 1].module = stack[t][(j - 1) + 1].module
            /\ stack'[t][j - 1].at = stack[t][(j - 1) + 1].at
        BY <2>3, <4>2
      <4> QED BY <3>2, <3>4, <4>2, <4>3
    <3> QED BY <3>3, <3>4
  <2>5. StraightFrames'
    <3>1. \A u \in Threads : \A i \in 1..Len(stack[u]) : StraightFrame(u, i)
      BY <2>1 DEF IInv, StraightSound, StraightFrames
    <3> SUFFICES ASSUME NEW u \in Threads, NEW i \in 1..Len(stack'[u]) PROVE StraightFrame(u, i)'
      BY DEF StraightFrames
    <3>2. CASE u # t
      BY <1>2, <1>4, <3>1, <3>2 DEF StraightFrame
    <3>3. CASE u = t
      <4>1. i + 1 \in 1..Len(stack[t]) /\ i + 1 # 1
        BY <1>4, <3>3
      <4>2. StraightFrame(t, i + 1)
        BY <3>1, <4>1
      <4>3. /\ stack'[t][i].at = stack[t][i + 1].at /\ stack'[t][i].module = stack[t][i + 1].module
            /\ stack'[t][i].name = stack[t][i + 1].name /\ stack'[t][i].loads = stack[t][i + 1].loads
        BY <2>3, <3>3
      <4>4. (i + 1) - 1 = i /\ i \in 1..Len(stack[t])
        BY <1>4, <3>3
      <4>5. ASSUME stack'[t][i].at = "recheck"
            PROVE  IF i = 1 THEN sys_modules[program.parent[stack'[t][i].name]] # 0
                   ELSE stack'[t][i-1].name = program.parent[stack'[t][i].name]
        <5>1. stack[t][i].name = program.parent[stack[t][i + 1].name]
          BY <4>1, <4>2, <4>3, <4>4, <4>5 DEF StraightFrame
        <5>2. CASE i = 1
          BY <1>3, <2>1, <4>3, <5>1, <5>2
        <5>3. CASE i # 1
          <6>1. i - 1 \in 1..Len(stack'[t]) /\ (i - 1) + 1 = i
            BY <1>4, <3>3, <5>3
          <6>2. stack'[t][i-1].name = stack[t][(i - 1) + 1].name
            BY <2>3, <6>1
          <6> QED BY <4>3, <5>1, <5>3, <6>1, <6>2
        <5> QED BY <5>2, <5>3
      <4> QED BY <1>2, <3>3, <4>2, <4>3, <4>5 DEF StraightFrame
    <3> QED BY <3>2, <3>3
  <2> QED BY <1>9, <2>1, <2>2, <2>4, <2>5 DEF IInv, StraightSound
<1> QED BY <1>5, <1>7, <1>8, <1>9, <1>10, <1>11 DEF IInv

-----------------------------------------------------------------------------
(* The import lock and the locks of modules.                               *)

LEMMA LookupKeeps ==
  ASSUME ImportAssumption, IInv, NEW t \in Threads, Lookup(t)
  PROVE  IInv'
<1> DEFINE f == Top(t)
           place == IF sys_modules[f.name] = 0 THEN "load" ELSE "fetch"
           g == [f EXCEPT !.at = place]
           In(u) == At(u, "fetch") \/ At(u, "load") \/ At(u, "wait")
<1>1. /\ At(t, "begin") /\ Become(t, g) /\ holder \in {None, t} /\ holder' = t /\ level' = level + 1
      /\ UNCHANGED <<program, locks, moduleLocks, sys_modules, status, begun>>
  BY DEF Lookup, Goto, MayLock
<1>2. /\ stack[t] # <<>> /\ f \in Frames /\ f.at = "begin" /\ f.name \in Names
      /\ FrameSound(f) /\ f = stack[t][1] /\ 1 \in 1..Len(stack[t])
      /\ Straight => StraightSound /\ StraightFrame(t, 1)
  BY <1>1, Innermost
<1>3. /\ g \in Frames /\ g.name = f.name /\ g.lock = f.lock /\ g.loads = f.loads
      /\ g.module = f.module /\ g.at = place /\ place \in {"load", "fetch"}
  BY <1>2 DEF Frames
<1>4. HeadIs(t, g)
  BY <1>1, <1>2, <1>3, BecomeStep DEF IInv
<1> HIDE DEF g
<1>5. TypeOK'
  <2>1. holder' \in Threads \cup {None} /\ level' \in Nat
    BY <1>1 DEF IInv, TypeOK
  <2> QED BY <1>1, <1>4, <2>1 DEF IInv, TypeOK, moduleLocks, HeadIs
<1>6. StacksSound'
  <2>1. FrameSound(g)
    BY <1>2, <1>3 DEF FrameSound, Waiting, Entered
  <2>2. \A n \in Names : Len(status'[n]) \in Nat /\ Len(status[n]) <= Len(status'[n])
    BY <1>1, LenProperties DEF IInv, TypeOK
  <2>3. PICK h \in Frames : h = g /\ Become(t, h)
    BY <1>1, <1>3
  <2>4. FrameSound(h)'
    BY <1>1, <2>1, <2>3 DEF FrameSound
  <2>5. h.name = Top(t).name /\ program' = program
    BY <1>1, <1>3, <2>3
  <2> QED BY <1>2, <2>2, <2>3, <2>4, <2>5, BecomeStacks DEF IInv
<1>7. \A u \in Threads : IF u = t THEN In(t)' /\ ~In(t) ELSE In(u)' <=> In(u)
  BY <1>2, <1>3, <1>4 DEF At, Top, HeadIs
<1>8. LookupsLocked'
  <2>1. holder' # None /\ level' # 0
    BY <1>1 DEF IInv, TypeOK, ImportAssumption
  <2>2. ASSUME NEW u \in Threads, In(u)' PROVE holder' = u
    BY <1>1, <1>7, <2>2 DEF IInv, LookupsLocked, ImportAssumption
  <2> QED BY <2>1, <2>2 DEF LookupsLocked
<1>9. LocksNamed'
  BY <1>1, <1>2, <1>3, <1>4, BecomeNamed DEF IInv
<1>10. LocksCounted'
  <2>1. \A l \in LockIds : HoldsIt(Top(t), l) <=> HoldsIt(g, l)
    BY <1>2, <1>3 DEF HoldsIt, Waiting
  <2> QED BY <1>1, <1>2, <1>3, <1>4, <2>1, BecomeCounted DEF IInv, moduleLocks
<1>11. NoStaleEntry'
  BY <1>1, <1>2, <1>3, <1>4, BecomeNoStale DEF IInv
<1>12. ASSUME Straight' PROVE StraightSound'
  <2>1. Straight
    BY <1>1, <1>12, StraightStays
  <2>2. LoadersLock'
    BY <1>1, <1>2, <1>3, <1>4, <2>1, BecomeLoaders DEF IInv, StraightSound
  <2>3. StraightFrame(t, 1)'
    <3>1. stack'[t][1] = g
      BY <1>2, <1>4 DEF HeadIs
    <3> QED BY <1>1, <1>2, <1>3, <2>1, <3>1 DEF StraightFrame, Waiting
  <2>4. StraightFrames'
    <3>1. \A u \in Threads \ {t} : At(u, "load") => sys_modules'[Top(u).name] = 0
      <4> TAKE u \in Threads \ {t}
      <4> HAVE At(u, "load")
      <4>1. StraightFrame(u, 1) /\ Top(u) = stack[u][1] /\ Top(u).at = "load"
        BY <2>1, Innermost
      <4> QED BY <1>1, <4>1 DEF StraightFrame
    <3> QED BY <1>1, <1>2, <1>3, <1>4, <2>1, <2>3, <3>1, BecomeStraight DEF IInv, StraightSound
  <2>5. ModulesRun'
    BY <1>1, <1>2, <1>3, <1>4, <2>1, BecomeModules DEF IInv, StraightSound
  <2>6. ImportLockFree'
    <3>1. (IF holder = t THEN level ELSE 0) = 0
      BY <1>2, <1>7, <2>1 DEF StraightSound, ImportLockFree
    <3>2. level = 0
      BY <1>1, <3>1 DEF IInv, LookupsLocked
    <3>3. \A u \in Threads : u # t => ~In(u)
      BY <1>1 DEF IInv, LookupsLocked, ImportAssumption
    <3>4. \A u \in Threads : (IF holder' = u THEN level' ELSE 0) = IF In(u)' THEN 1 ELSE 0
      BY <1>1, <1>7, <3>2, <3>3
    <3> QED BY <3>4 DEF ImportLockFree
  <2> QED BY <2>2, <2>4, <2>5, <2>6 DEF StraightSound
<1> QED BY <1>5, <1>6, <1>8, <1>9, <1>10, <1>11, <1>12 DEF IInv

\* The owner of a lock has a frame that has acquired it.
LEMMA OwnerHolds ==
  ASSUME TypeOK, LocksCounted, NEW l \in LockIds, NEW u \in Threads, owner[l] = u, None \notin Threads
  PROVE  \E j \in 1..Len(stack[u]) : HoldsIt(stack[u][j], l)
<1>1. stack[u] \in Seq(Frames) /\ DOMAIN stack[u] = 1..Len(stack[u])
  BY Tops DEF TypeOK
<1>2. Cardinality(Holds(stack[u], l)) # 0
  BY DEF LocksCounted
<1>3. Holds(stack[u], l) # {}
  BY <1>1, <1>2, HoldsIsFinite
<1> QED BY <1>1, <1>3 DEF Holds, HoldsIt

\* Without circles between modules no thread waits, by way of others, for itself.
LEMMA NoCircleOfThreads ==
  ASSUME ImportAssumption, IInv, Straight, NEW t \in Threads, At(t, "acquire"),
         owner[Top(t).lock] \notin {None, t}
  PROVE  ~Circle(t, Top(t).lock)
<1> DEFINE l == Top(t).lock
           m == Top(t).name
           D == {m} \cup Needs(m)
           C == {u \in Threads : \E j \in 1..Len(stack[u]) :
                   LET f == stack[u][j] IN f.lock \in LockIds /\ HoldsIt(f, f.lock) /\ f.name \in D}
<1>1. /\ None \notin Threads /\ None \notin LockIds
      /\ \A u \in Threads : \A i \in 1..Len(stack[u]) : stack[u][i] \in Frames /\ stack[u][i].name \in Names
      /\ m \in Names /\ l \in LockIds /\ Top(t) = stack[t][1] /\ 1 \in 1..Len(stack[t])
      /\ Top(t).at = "acquire"
  <2>1. \A u \in Threads : \A i \in 1..Len(stack[u]) : stack[u][i] \in Frames /\ stack[u][i].name \in Names
    BY Tops DEF IInv, Frames
  <2>2. /\ FrameSound(Top(t)) /\ Top(t).at = "acquire" /\ m \in Names /\ Top(t) = stack[t][1]
        /\ 1 \in 1..Len(stack[t])
    BY Innermost
  <2> QED BY <2>1, <2>2, LockAssumption DEF FrameSound, Waiting, ImportAssumption
<1>2. \A d \in D : d \in Names /\ Needs(d) \subseteq D
  BY <1>1, NeedsIsClosed, NeedsIsTransitive
<1>3. \A u \in Threads : \A j \in 1..Len(stack[u]) :
        j # 1 => stack[u][1].name \in Needs(stack[u][j].name)
  BY DEF IInv, StacksSound
<1>4. \A k \in LockIds : \A u \in Threads : owner[k] = u =>
        \E j \in 1..Len(stack[u]) : HoldsIt(stack[u][j], k)
  BY <1>1, OwnerHolds DEF IInv
<1>5. ASSUME NEW k \in LockIds, owner[k] \in Threads,
             NEW u \in Threads, NEW i \in 1..Len(stack[u]), stack[u][i].lock = k, stack[u][i].name \in D
      PROVE  owner[k] \in C
  <2>1. PICK j \in 1..Len(stack[owner[k]]) : HoldsIt(stack[owner[k]][j], k)
    BY <1>4, <1>5
  <2>2. stack[owner[k]][j].lock = k /\ stack[owner[k]][j].name = stack[u][i].name
    BY <1>5, <2>1 DEF IInv, LocksNamed, HoldsIt
  <2> QED BY <1>5, <2>1, <2>2
<1>6. owner[l] \in C
  <2>1. owner[l] \in Threads
    BY <1>1 DEF IInv, TypeOK
  <2> QED BY <1>1, <1>5, <2>1
<1>7. ASSUME NEW u \in C PROVE Blocker(u) \in C \cup {None}
  <2> SUFFICES ASSUME At(u, "acquire") \/ At(u, "asleep"), owner[Top(u).lock] # None
               PROVE  owner[Top(u).lock] \in C
    BY DEF Blocker
  <2>1. /\ u \in Threads /\ Top(u) = stack[u][1] /\ 1 \in 1..Len(stack[u]) /\ FrameSound(Top(u))
        /\ Top(u).at \in Waiting
    BY Innermost DEF Waiting
  <2>2. Top(u).lock \in LockIds
    BY <2>1 DEF FrameSound
  <2>3. PICK j \in 1..Len(stack[u]) : HoldsIt(stack[u][j], stack[u][j].lock) /\ stack[u][j].name \in D
    BY <1>7
  <2>4. j # 1
    BY <2>1, <2>3 DEF HoldsIt
  <2>5. stack[u][1].name \in D
    BY <1>2, <1>3, <2>1, <2>3, <2>4
  <2>6. owner[Top(u).lock] \in Threads
    BY <2>2 DEF IInv, TypeOK
  <2> QED BY <1>5, <2>1, <2>2, <2>5, <2>6
<1>8. t \notin C
  <2> SUFFICES ASSUME NEW j \in 1..Len(stack[t]), HoldsIt(stack[t][j], stack[t][j].lock),
                      stack[t][j].name \in D
               PROVE  FALSE
    OBVIOUS
  <2>1. j # 1
    BY <1>1 DEF HoldsIt, Waiting
  <2>2. m \in Needs(stack[t][j].name)
    BY <1>1, <1>3, <2>1
  <2>3. m \in Needs(m)
    <3>1. CASE stack[t][j].name = m
      BY <2>2, <3>1
    <3>2. CASE stack[t][j].name \in Needs(m)
      BY <1>1, <2>2, <3>2, NeedsIsTransitive
    <3> QED BY <3>1, <3>2
  <2> QED BY <1>1, <2>3, NothingNeedsItself
<1>9. C \in SUBSET Threads
  OBVIOUS
<1> HIDE DEF C
<1> QED BY <1>6, <1>7, <1>8, <1>9 DEF Circle

\* What _get_module_lock() finds or makes.
LEMMA NewLock ==
  ASSUME ImportAssumption, IInv, NEW t \in Threads, GetLock(t),
         NEW n, n = Top(t).name,
         NEW l, l = IF locks[n] \in LockIds THEN locks[n]
                    ELSE CHOOSE new \in LockIds \ Alive : TRUE
  PROVE  /\ n \in Names /\ l \in LockIds /\ locks' = [locks EXCEPT ![n] = l]
         /\ \A u \in Threads : \A i \in 1..Len(stack[u]) : stack[u][i].lock = l => stack[u][i].name = n
         /\ \A m \in Names : locks[m] = l => m = n
         /\ \A m \in Names : locks'[m] = IF m = n THEN l ELSE locks[m]
         /\ locks[n] \notin LockIds => l \notin Alive
<1>1. PICK place \in {"load", "wait"} : At(t, place)
  BY DEF GetLock
<1>2. n \in Names
  BY <1>1, Innermost
<1>3. locks' = [locks EXCEPT ![n] = l] /\ (locks[n] \in LockIds \/ Alive # LockIds)
  BY DEF GetLock
<1>4. locks \in [Names -> LockIds \cup {None, Dead}]
  BY DEF IInv, TypeOK
<1>5. l \in LockIds /\ (locks[n] \notin LockIds => l \notin Alive)
  <2>1. Alive \subseteq LockIds
    BY DEF Alive
  <2>2. ASSUME locks[n] \notin LockIds PROVE l \in LockIds \ Alive
    <3>1. \E new \in LockIds \ Alive : TRUE
      BY <1>3, <2>1, <2>2
    <3> HIDE DEF Alive
    <3>2. (CHOOSE new \in LockIds \ Alive : TRUE) \in LockIds \ Alive
      BY <3>1
    <3> QED BY <2>2, <3>2
  <2> QED BY <2>2
<1>6. ASSUME NEW u \in Threads, NEW i \in 1..Len(stack[u]), stack[u][i].lock = l
      PROVE  stack[u][i].name = n /\ l \in Alive
  <2>1. l \in Alive
    BY <1>5, <1>6, Tops DEF Alive, IInv
  <2>2. locks[n] = l
    BY <1>5, <2>1
  <2>3. \A m \in Names : locks[m] = stack[u][i].lock => stack[u][i].name = m
    BY <1>5, <1>6 DEF IInv, LocksNamed
  <2> QED BY <1>2, <1>6, <2>1, <2>2, <2>3
<1>7. ASSUME NEW m \in Names, locks[m] = l PROVE m = n
  <2>1. l \in Alive
    BY <1>5, <1>7 DEF IInv, NoStaleEntry
  <2>2. PICK u \in Threads : \E i \in DOMAIN stack[u] : stack[u][i].lock = l
    BY <2>1 DEF Alive
  <2>3. PICK i \in 1..Len(stack[u]) : stack[u][i].lock = l
    BY <2>2, Tops DEF IInv
  <2>4. stack[u][i].name = m
    BY <1>5, <1>7, <2>3 DEF IInv, LocksNamed
  <2> QED BY <1>6, <2>3, <2>4
<1> QED BY <1>2, <1>3, <1>4, <1>5, <1>6, <1>7

LEMMA GetLockKeeps ==
  ASSUME ImportAssumption, LockAssumption, IInv, NEW t \in Threads, GetLock(t)
  PROVE  IInv'
<1> DEFINE f == Top(t)
           n == f.name
           l == IF locks[n] \in LockIds THEN locks[n]
                ELSE CHOOSE new \in LockIds \ Alive : TRUE
           g == [f EXCEPT !.lock = l, !.at = "acquire", !.loads = (f.at = "load")]
           In(u) == At(u, "fetch") \/ At(u, "load") \/ At(u, "wait")
<1>1. /\ Become(t, g) /\ UnlockImports
      /\ UNCHANGED <<program, moduleLocks, sys_modules, status, begun>>
  BY DEF GetLock
<1>2. PICK place \in {"load", "wait"} : At(t, place)
  BY DEF GetLock
<1>3. /\ stack[t] # <<>> /\ f \in Frames /\ f.at = place /\ n \in Names /\ f.module \in Nat
      /\ FrameSound(f) /\ f = stack[t][1] /\ 1 \in 1..Len(stack[t])
      /\ Straight => StraightSound /\ StraightFrame(t, 1)
  BY <1>2, Innermost
<1>4. /\ l \in LockIds /\ locks' = [locks EXCEPT ![n] = l]
      /\ \A u \in Threads : \A i \in 1..Len(stack[u]) : stack[u][i].lock = l => stack[u][i].name = n
      /\ \A m \in Names : locks[m] = l => m = n
      /\ \A m \in Names : locks'[m] = IF m = n THEN l ELSE locks[m]
      /\ locks[n] \notin LockIds => l \notin Alive
  BY NewLock
<1>5. /\ g \in Frames /\ g.name = n /\ g.lock = l /\ g.loads = (place = "load")
      /\ g.module = f.module /\ g.at = "acquire"
  BY <1>3, <1>4 DEF Frames
<1> HIDE DEF l
<1>6. HeadIs(t, g)
  BY <1>1, <1>3, <1>5, BecomeStep DEF IInv
<1> HIDE DEF g
<1>7. f.lock \notin LockIds /\ f.at # "callback"
  BY <1>3 DEF FrameSound, Waiting, Entered
<1>8. \A u \in Threads :
        /\ Len(stack'[u]) = Len(stack[u]) /\ Len(stack[u]) \in Nat
        /\ DOMAIN stack'[u] = 1..Len(stack[u]) /\ DOMAIN stack[u] = 1..Len(stack[u])
        /\ stack'[u] = <<>> <=> stack[u] = <<>>
        /\ \A i \in 1..Len(stack[u]) :
             /\ stack[u][i] \in Frames /\ stack'[u][i] \in Frames
             /\ u = t /\ i = 1 => stack'[u][i] = g /\ stack[u][i] = Top(t)
             /\ ~(u = t /\ i = 1) => stack'[u][i] = stack[u][i]
  BY <1>3, <1>5, <1>6, OldFrames DEF IInv
<1>9. holder = t /\ level \in Nat \ {0} /\ level' = level - 1
      /\ holder' = IF level = 1 THEN None ELSE holder
  BY <1>1, <1>2 DEF IInv, TypeOK, LookupsLocked, UnlockImports, ImportAssumption
<1>10. TypeOK'
  <2>1. holder' \in Threads \cup {None} /\ level' \in Nat
    BY <1>9
  <2>2. locks' \in [Names -> LockIds \cup {None, Dead}]
    BY <1>4 DEF IInv, TypeOK
  <2> QED BY <1>1, <1>6, <2>1, <2>2 DEF IInv, TypeOK, moduleLocks, HeadIs
<1>11. StacksSound'
  <2>1. FrameSound(g)
    BY <1>3, <1>4, <1>5 DEF FrameSound, Waiting, Entered
  <2>2. \A x \in Names : Len(status'[x]) \in Nat /\ Len(status[x]) <= Len(status'[x])
    BY <1>1, LenProperties DEF IInv, TypeOK
  <2>3. PICK h \in Frames : h = g /\ Become(t, h)
    BY <1>1, <1>5
  <2>4. FrameSound(h)'
    BY <1>1, <2>1, <2>3 DEF FrameSound
  <2>5. h.name = Top(t).name /\ program' = program
    BY <1>1, <1>5, <2>3
  <2> QED BY <1>3, <2>2, <2>3, <2>4, <2>5, BecomeStacks DEF IInv
<1>12. \A u \in Threads : IF u = t THEN ~In(t)' /\ In(t) ELSE In(u)' <=> In(u)
  BY <1>2, <1>3, <1>5, <1>6 DEF At, Top, HeadIs
<1>13. LookupsLocked'
  <2>1. holder' = None <=> level' = 0
    BY <1>9 DEF ImportAssumption
  <2>2. ASSUME NEW u \in Threads, In(u)' PROVE FALSE
    BY <1>9, <1>12, <2>2 DEF IInv, LookupsLocked
  <2> QED BY <2>1, <2>2 DEF LookupsLocked
<1>14. LocksNamed'
  <2> SUFFICES ASSUME NEW u \in Threads, NEW i \in 1..Len(stack[u]), stack'[u][i].lock \in LockIds
               PROVE  /\ \A m \in Names : locks'[m] = stack'[u][i].lock => stack'[u][i].name = m
                      /\ \A v \in Threads : \A j \in 1..Len(stack[v]) :
                           stack'[v][j].lock = stack'[u][i].lock => stack'[v][j].name = stack'[u][i].name
    BY <1>8 DEF LocksNamed
  <2>1. \A v \in Threads : \A j \in 1..Len(stack[v]) : stack'[v][j].lock = l => stack'[v][j].name = n
    BY <1>4, <1>5, <1>8
  <2>2. CASE stack'[u][i].lock = l
    BY <1>4, <2>1, <2>2
  <2>3. CASE stack'[u][i].lock # l
    <3>1. stack'[u][i] = stack[u][i]
      BY <1>5, <1>8, <2>3
    <3>2. /\ \A m \in Names : locks[m] = stack[u][i].lock => stack[u][i].name = m
          /\ \A v \in Threads : \A j \in 1..Len(stack[v]) :
               stack[v][j].lock = stack[u][i].lock => stack[v][j].name = stack[u][i].name
      BY <3>1 DEF IInv, LocksNamed
    <3>3. \A m \in Names : locks'[m] = stack[u][i].lock => locks[m] = stack[u][i].lock
      BY <1>4, <2>3, <3>1
    <3>4. ASSUME NEW v \in Threads, NEW j \in 1..Len(stack[v]), stack'[v][j].lock = stack[u][i].lock
          PROVE  stack'[v][j] = stack[v][j]
      BY <1>5, <1>8, <2>3, <3>1, <3>4
    <3> QED BY <3>1, <3>2, <3>3, <3>4
  <2> QED BY <2>2, <2>3
<1>15. LocksCounted'
  <2>1. \A k \in LockIds : HoldsIt(Top(t), k) <=> HoldsIt(g, k)
    BY <1>5, <1>7 DEF HoldsIt, Waiting
  <2> QED BY <1>1, <1>3, <1>5, <1>6, <2>1, BecomeCounted DEF IInv, moduleLocks
<1>16. NoStaleEntry'
  <2>1. ASSUME NEW m \in Names, locks'[m] \in LockIds
        PROVE  \E u \in Threads : \E i \in DOMAIN stack'[u] : stack'[u][i].lock = locks'[m]
    <3>1. CASE m = n
      <4>1. 1 \in DOMAIN stack'[t] /\ stack'[t][1].lock = l
        BY <1>3, <1>5, <1>8
      <4> QED BY <1>4, <3>1, <4>1
    <3>2. CASE m # n
      <4>1. locks'[m] = locks[m] /\ locks[m] \in Alive
        BY <1>4, <2>1, <3>2 DEF IInv, NoStaleEntry
      <4>2. PICK u \in Threads : \E i \in DOMAIN stack[u] : stack[u][i].lock = locks[m]
        BY <4>1 DEF Alive
      <4>3. PICK i \in 1..Len(stack[u]) : stack[u][i].lock = locks[m]
        BY <1>8, <4>2
      <4>4. ~(u = t /\ i = 1)
        BY <1>3, <1>7, <2>1, <4>1, <4>3
      <4>5. stack'[u][i] = stack[u][i] /\ i \in DOMAIN stack'[u]
        BY <1>8, <4>4
      <4> QED BY <4>1, <4>3, <4>5
    <3> QED BY <3>1, <3>2
  <2>2. ASSUME NEW m \in Names, locks'[m] = Dead
        PROVE  \E u \in Threads : At(u, "callback")' /\ Top(u)'.name = m
    <3>1. locks[m] = Dead
      BY <1>4, <2>2 DEF LockAssumption
    <3>2. PICK u \in Threads : At(u, "callback") /\ Top(u).name = m
      BY <3>1 DEF IInv, NoStaleEntry
    <3>3. u # t
      BY <1>7, <3>2 DEF At
    <3>4. stack'[u] = stack[u]
      BY <1>6, <3>3 DEF HeadIs
    <3> QED BY <3>2, <3>4 DEF At, Top
  <2> QED BY <2>1, <2>2 DEF NoStaleEntry, Alive
<1>17. ASSUME Straight' PROVE StraightSound'
  <2>1. Straight
    BY <1>1, <1>17, StraightStays
  <2>2. /\ place = "load" => sys_modules[n] = 0
        /\ place = "wait" => f.module # 0
        /\ f.module # 0 => sys_modules[n] # 0
    BY <1>3, <2>1 DEF StraightFrame
  <2>3. LoadersLock'
    <3>1. ASSUME NEW u \in Threads, NEW i \in 1..Len(stack[u]), stack[u][i].name = n, place = "load",
                 ~(u = t /\ i = 1)
          PROVE  /\ stack[u][i].at # "callback"
                 /\ stack[u][i].lock \in LockIds => stack[u][i].loads
      <4>1. StraightFrame(u, i)
        BY <2>1 DEF IInv, StraightSound, StraightFrames
      <4>2. stack[u][i].module = 0
        BY <2>2, <3>1, <4>1 DEF StraightFrame
      <4>3. stack[u][i].at \notin {"callback", "unlock"}
        BY <4>1, <4>2 DEF StraightFrame
      <4>4. ASSUME stack[u][i].lock \in LockIds PROVE stack[u][i].loads
        <5>1. FrameSound(stack[u][i])
          BY DEF IInv, StacksSound
        <5>2. CASE stack[u][i].at \in Waiting
          BY <4>1, <4>2, <5>2 DEF StraightFrame
        <5>3. CASE stack[u][i].at \in Entered
          BY <4>3, <5>1, <5>3 DEF FrameSound
        <5> QED BY <4>4, <5>1, <5>2, <5>3 DEF FrameSound
      <4> QED BY <4>3, <4>4
    <3>2. ASSUME NEW u \in Threads, NEW i \in 1..Len(stack[u]), ~(u = t /\ i = 1),
                 stack[u][i].loads, stack[u][i].lock \in LockIds
          PROVE  /\ locks[stack[u][i].name] = stack[u][i].lock
                 /\ stack[u][i].name = n => l = stack[u][i].lock
                 /\ \A v \in Threads : \A j \in 1..Len(stack[v]) :
                      stack[v][j].name = stack[u][i].name =>
                        /\ stack[v][j].at # "callback"
                        /\ stack[v][j].lock \in LockIds => stack[v][j].lock = stack[u][i].lock
      BY <2>1, <3>2 DEF IInv, StraightSound, LoadersLock, l
    <3>3. ASSUME NEW u \in Threads, NEW i \in 1..Len(stack[u]), ~(u = t /\ i = 1),
                 stack[u][i].loads, stack[u][i].lock \in LockIds
          PROVE  /\ locks'[stack[u][i].name] = stack[u][i].lock
                 /\ \A v \in Threads : \A j \in 1..Len(stack[v]) :
                      stack'[v][j].name = stack[u][i].name =>
                        /\ stack'[v][j].at # "callback"
                        /\ stack'[v][j].lock \in LockIds => stack'[v][j].lock = stack[u][i].lock
      <4>1. stack[u][i].name \in Names
        BY <1>8 DEF Frames
      <4>2. locks'[stack[u][i].name] = stack[u][i].lock
        BY <1>4, <3>2, <3>3, <4>1
      <4>3. ASSUME NEW v \in Threads, NEW j \in 1..Len(stack[v]), stack'[v][j].name = stack[u][i].name
            PROVE  /\ stack'[v][j].at # "callback"
                   /\ stack'[v][j].lock \in LockIds => stack'[v][j].lock = stack[u][i].lock
        <5>1. CASE v = t /\ j = 1
          <6>1. stack'[v][j] = g
            BY <1>8, <5>1
          <6> QED BY <1>5, <3>2, <3>3, <4>3, <6>1
        <5>2. CASE ~(v = t /\ j = 1)
          <6>1. stack'[v][j] = stack[v][j]
            BY <1>8, <5>2
          <6> QED BY <3>2, <3>3, <4>3, <6>1
        <5> QED BY <5>1, <5>2
      <4> QED BY <4>2, <4>3
    <3>4. ASSUME place = "load"
          PROVE  /\ locks'[n] = l
                 /\ \A v \in Threads : \A j \in 1..Len(stack[v]) :
                      stack'[v][j].name = n =>
                        /\ stack'[v][j].at # "callback"
                        /\ stack'[v][j].lock \in LockIds => stack'[v][j].lock = l
      <4>1. ASSUME NEW v \in Threads, NEW j \in 1..Len(stack[v]), stack'[v][j].name = n
            PROVE  /\ stack'[v][j].at # "callback"
                   /\ stack'[v][j].lock \in LockIds => stack'[v][j].lock = l
        <5>1. CASE v = t /\ j = 1
          <6>1. stack'[v][j] = g
            BY <1>8, <5>1
          <6> QED BY <1>5, <6>1
        <5>2. CASE ~(v = t /\ j = 1)
          <6>1. stack'[v][j] = stack[v][j]
            BY <1>8, <5>2
          <6>2. /\ stack[v][j].at # "callback"
                /\ stack[v][j].lock \in LockIds => stack[v][j].loads
            BY <3>1, <3>4, <4>1, <5>2, <6>1
          <6>3. ASSUME stack[v][j].lock \in LockIds PROVE l = stack[v][j].lock
            BY <3>2, <4>1, <5>2, <6>1, <6>2, <6>3
          <6> QED BY <6>1, <6>2, <6>3
        <5> QED BY <5>1, <5>2
      <4> QED BY <1>3, <1>4, <4>1
    <3> SUFFICES ASSUME NEW u \in Threads, NEW i \in 1..Len(stack[u]),
                        stack'[u][i].loads, stack'[u][i].lock \in LockIds
                 PROVE  /\ locks'[stack'[u][i].name] = stack'[u][i].lock
                        /\ \A v \in Threads : \A j \in 1..Len(stack[v]) :
                             stack'[v][j].name = stack'[u][i].name =>
                               /\ stack'[v][j].at # "callback"
                               /\ stack'[v][j].lock \in LockIds =>
                                    stack'[v][j].lock = stack'[u][i].lock
      BY <1>8 DEF LoadersLock
    <3>5. CASE u = t /\ i = 1
      <4>1. stack'[u][i] = g
        BY <1>8, <3>5
      <4>2. place = "load" /\ stack'[u][i].name = n /\ stack'[u][i].lock = l
        BY <1>5, <4>1
      <4> QED BY <3>4, <4>2
    <3>6. CASE ~(u = t /\ i = 1)
      <4>1. stack'[u][i] = stack[u][i]
        BY <1>8, <3>6
      <4> QED BY <3>3, <3>6, <4>1
    <3> QED BY <3>5, <3>6
  <2>4. StraightFrame(t, 1)'
    <3>1. stack'[t][1] = g
      BY <1>3, <1>6 DEF HeadIs
    <3> QED BY <1>1, <1>3, <1>5, <2>2, <3>1 DEF StraightFrame, Waiting
  <2>5. StraightFrames'
    <3>1. \A u \in Threads \ {t} : At(u, "load") => sys_modules'[Top(u).name] = 0
      <4> TAKE u \in Threads \ {t}
      <4> HAVE At(u, "load")
      <4>1. StraightFrame(u, 1) /\ Top(u) = stack[u][1] /\ Top(u).at = "load"
        BY <2>1, Innermost
      <4> QED BY <1>1, <4>1 DEF StraightFrame
    <3> QED BY <1>1, <1>3, <1>5, <1>6, <2>1, <2>4, <3>1, BecomeStraight DEF IInv, StraightSound
  <2>6. ModulesRun'
    BY <1>1, <1>3, <1>5, <1>6, <2>1, BecomeModules DEF IInv, StraightSound
  <2>7. ImportLockFree'
    <3>1. level = 1
      BY <1>9, <1>12, <2>1 DEF IInv, StraightSound, ImportLockFree
    <3>2. \A u \in Threads : ~In(u)'
      BY <1>9, <1>12 DEF IInv, LookupsLocked
    <3>3. \A u \in Threads : (IF holder' = u THEN level' ELSE 0) = IF In(u)' THEN 1 ELSE 0
      BY <1>9, <3>1, <3>2
    <3> QED BY <3>3 DEF ImportLockFree
  <2> QED BY <2>3, <2>5, <2>6, <2>7 DEF StraightSound
<1> QED BY <1>10, <1>11, <1>13, <1>14, <1>15, <1>16, <1>17 DEF IInv

\* A thread that waits for a module's loader has the lock when the module is complete.
LEMMA LoaderIsDone ==
  ASSUME ImportAssumption, IInv, Straight, NEW t \in Threads, At(t, "acquire"),
         owner[Top(t).lock] \in {None, t}, Top(t).module # 0
  PROVE  status[Top(t).name][Top(t).module] = "complete"
<1> DEFINE f == Top(t)
           n == f.name
<1>1. /\ f = stack[t][1] /\ 1 \in 1..Len(stack[t]) /\ f.at = "acquire" /\ n \in Names
      /\ f.module \in Nat /\ f.module <= Len(status[n]) /\ Len(status[n]) \in Nat /\ FrameSound(f)
  BY Innermost
<1>2. f.lock \in LockIds /\ f.module \in 1..Len(status[n])
  BY <1>1 DEF FrameSound, Waiting
<1> SUFFICES ASSUME status[n][f.module] # "complete" PROVE FALSE
  OBVIOUS
<1>3. PICK u \in Threads : \E j \in 1..Len(stack[u]) :
        stack[u][j].name = n /\ stack[u][j].module = f.module /\ stack[u][j].at \in {"body", "ran"}
  <2>1. ModulesRun
    BY DEF IInv, StraightSound
  <2>2. ASSUME NEW x \in Names, NEW k \in 1..Len(status[x]), status[x][k] # "complete"
        PROVE  \E u \in Threads : \E j \in 1..Len(stack[u]) :
                 /\ stack[u][j].name = x /\ stack[u][j].module = k
                 /\ stack[u][j].at \in {"body", "ran"}
    BY <2>1, <2>2 DEF ModulesRun
  <2> HIDE DEF n, f
  <2> QED BY <1>1, <1>2, <2>2
<1>4. PICK j \in 1..Len(stack[u]) :
        stack[u][j].name = n /\ stack[u][j].module = f.module /\ stack[u][j].at \in {"body", "ran"}
  BY <1>3
<1>5. stack[u][j].loads /\ stack[u][j].lock \in LockIds /\ stack[u][j].at \notin Waiting
  BY <1>4 DEF IInv, StacksSound, FrameSound, Entered, Waiting
<1>6. stack[u][j].lock = f.lock
  BY <1>1, <1>2, <1>4, <1>5 DEF IInv, StraightSound, LoadersLock
<1>7. u = t
  BY <1>2, <1>5, <1>6, HolderOwns DEF IInv, HoldsIt, ImportAssumption
<1>8. j # 1 /\ 1 < j
  BY <1>1, <1>4, <1>7
<1>9. n \in Needs(n)
  BY <1>1, <1>4, <1>7, <1>8 DEF IInv, StacksSound
<1> QED BY <1>1, <1>9, NothingNeedsItself

LEMMA AcquireKeeps ==
  ASSUME ImportAssumption, IInv, NEW t \in Threads, Acquire(t)
  PROVE  IInv'
<1> DEFINE f == Top(t)
           l == f.lock
           place == IF f.loads THEN "find" ELSE "unlock"
           g == [f EXCEPT !.at = place]
<1>1. /\ At(t, "acquire") /\ Become(t, g) /\ owner[l] \in {None, t}
      /\ owner' = [owner EXCEPT ![l] = t] /\ count' = [count EXCEPT ![l] = @ + 1]
      /\ UNCHANGED <<program, importLock, locks, sys_modules, status, begun>>
  BY DEF Acquire, Goto
<1>2. /\ stack[t] # <<>> /\ f \in Frames /\ f.at = "acquire" /\ f.name \in Names
      /\ FrameSound(f) /\ f = stack[t][1] /\ 1 \in 1..Len(stack[t])
      /\ Straight => StraightSound /\ StraightFrame(t, 1)
  BY <1>1, Innermost
<1>3. /\ g \in Frames /\ g.name = f.name /\ g.lock = l /\ g.loads = f.loads
      /\ g.module = f.module /\ g.at = place /\ place \in {"find", "unlock"}
  BY <1>2 DEF Frames
<1>4. HeadIs(t, g)
  BY <1>1, <1>2, <1>3, BecomeStep DEF IInv
<1> HIDE DEF g
<1>5. l \in LockIds /\ None \notin Threads
  BY <1>2 DEF FrameSound, Waiting, ImportAssumption
<1>6. /\ owner \in [LockIds -> Threads \cup {None}] /\ count \in [LockIds -> Nat]
      /\ owner' \in [LockIds -> Threads \cup {None}] /\ count' \in [LockIds -> Nat]
      /\ owner'[l] = t /\ count'[l] = count[l] + 1
      /\ \A k \in LockIds : k # l => owner'[k] = owner[k] /\ count'[k] = count[k]
  BY <1>1, <1>5 DEF IInv, TypeOK
<1>7. TypeOK'
  BY <1>1, <1>4, <1>6 DEF IInv, TypeOK, importLock, HeadIs
<1>8. StacksSound'
  <2>1. FrameSound(g)
    BY <1>2, <1>3 DEF FrameSound, Waiting, Entered
  <2>2. \A x \in Names : Len(status'[x]) \in Nat /\ Len(status[x]) <= Len(status'[x])
    BY <1>1, LenProperties DEF IInv, TypeOK
  <2>3. PICK h \in Frames : h = g /\ Become(t, h)
    BY <1>1, <1>3
  <2>4. FrameSound(h)'
    BY <1>1, <2>1, <2>3 DEF FrameSound
  <2>5. h.name = Top(t).name /\ program' = program
    BY <1>1, <1>3, <2>3
  <2> QED BY <1>2, <2>2, <2>3, <2>4, <2>5, BecomeStacks DEF IInv
<1>9. /\ LookupsLocked'
      /\ ImportLockFree /\ (Top(t).at \in LookupPlaces => g.at \in LookupPlaces) => ImportLockFree'
  BY <1>1, <1>2, <1>3, <1>4, BecomeLookups DEF IInv, importLock, LookupPlaces
<1>10. LocksNamed'
  BY <1>1, <1>2, <1>3, <1>4, BecomeNamed DEF IInv
<1>11. LocksCounted'
  <2> SUFFICES ASSUME NEW k \in LockIds
               PROVE  /\ owner'[k] = None <=> count'[k] = 0
                      /\ \A u \in Threads :
                           (IF owner'[k] = u THEN count'[k] ELSE 0)
                           = Cardinality(Holds(stack'[u], k))
    BY DEF LocksCounted, Holds
  <2>1. /\ owner[k] = None <=> count[k] = 0
        /\ \A u \in Threads :
             (IF owner[k] = u THEN count[k] ELSE 0) = Cardinality(Holds(stack[u], k))
    BY DEF IInv, LocksCounted
  <2>2. \A u \in Threads :
          Cardinality(Holds(stack'[u], k)) =
            IF u # t \/ (HoldsIt(Top(t), k) <=> HoldsIt(g, k)) THEN Cardinality(Holds(stack[u], k))
            ELSE IF HoldsIt(g, k) THEN Cardinality(Holds(stack[u], k)) + 1
                 ELSE Cardinality(Holds(stack[u], k)) - 1
    BY <1>2, <1>3, <1>4, BecomeHolds DEF IInv
  <2>3. ~HoldsIt(Top(t), k) /\ (HoldsIt(g, k) <=> k = l)
    BY <1>2, <1>3 DEF HoldsIt, Waiting
  <2>4. CASE k # l
    BY <1>6, <2>1, <2>2, <2>3, <2>4
  <2>5. CASE k = l
    <3>1. owner'[k] = None <=> count'[k] = 0
      BY <1>5, <1>6, <2>5
    <3>2. ASSUME NEW u \in Threads
          PROVE  (IF owner'[k] = u THEN count'[k] ELSE 0) = Cardinality(Holds(stack'[u], k))
      <4>1. CASE u = t
        <5>1. Cardinality(Holds(stack[t], k)) = count[k]
          BY <1>1, <1>5, <2>1, <2>5
        <5> QED BY <1>6, <2>2, <2>3, <2>5, <4>1, <5>1
      <4>2. CASE u # t
        <5>1. Cardinality(Holds(stack[u], k)) = 0
          BY <1>1, <1>5, <2>1, <2>5, <4>2
        <5> QED BY <1>6, <2>2, <2>5, <4>2, <5>1
      <4> QED BY <4>1, <4>2
    <3> QED BY <3>1, <3>2
  <2> QED BY <2>4, <2>5
<1>12. NoStaleEntry'
  BY <1>1, <1>2, <1>3, <1>4, BecomeNoStale DEF IInv
<1>13. ASSUME Straight' PROVE StraightSound'
  <2>1. Straight
    BY <1>1, <1>13, StraightStays
  <2>2. LoadersLock'
    BY <1>1, <1>2, <1>3, <1>4, <2>1, BecomeLoaders DEF IInv, StraightSound
  <2>3. StraightFrame(t, 1)'
    <3>1. stack'[t][1] = g
      BY <1>2, <1>4 DEF HeadIs
    <3>2. f.module # 0 => status[f.name][f.module] = "complete"
      BY <1>1, <2>1, LoaderIsDone
    <3>3. f.loads \/ f.module # 0
      BY <1>2, <2>1 DEF StraightFrame, Waiting
    <3> QED BY <1>1, <1>2, <1>3, <2>1, <3>1, <3>2, <3>3 DEF StraightFrame, Waiting
  <2>4. StraightFrames'
    <3>1. \A u \in Threads \ {t} : At(u, "load") => sys_modules'[Top(u).name] = 0
      <4> TAKE u \in Threads \ {t}
      <4> HAVE At(u, "load")
      <4>1. StraightFrame(u, 1) /\ Top(u) = stack[u][1] /\ Top(u).at = "load"
        BY <2>1, Innermost
      <4> QED BY <1>1, <4>1 DEF StraightFrame
    <3> QED BY <1>1, <1>2, <1>3, <1>4, <2>1, <2>3, <3>1, BecomeStraight DEF IInv, StraightSound
  <2>5. ModulesRun'
    BY <1>1, <1>2, <1>3, <1>4, <2>1, BecomeModules DEF IInv, StraightSound
  <2>6. ImportLockFree'
    BY <1>2, <1>9, <2>1 DEF StraightSound, LookupPlaces
  <2> QED BY <2>2, <2>4, <2>5, <2>6 DEF StraightSound
<1> QED BY <1>7, <1>8, <1>9, <1>10, <1>11, <1>12, <1>13 DEF IInv

\* What an import looks like that has given up its lock object.
LeaveIs(t, e, g) ==
  /\ g.name = e.name /\ g.lock = None /\ g.loads = e.loads /\ g.module = e.module
  /\ g.at \in {"callback", "return"}
  /\ g.at = "callback" =>
       /\ locks[e.name] = e.lock /\ locks' = [locks EXCEPT ![e.name] = Dead]
       /\ \A u \in Threads : \A i \in DOMAIN stack[u] :
            stack[u][i].lock = e.lock => u = t /\ i = 1
  /\ g.at = "return" =>
       /\ locks' = locks
       /\ locks[e.name] = e.lock =>
            \E u \in Threads : \E i \in DOMAIN stack[u] :
              stack[u][i].lock = e.lock /\ ~(u = t /\ i = 1)

LEMMA LeaveStep ==
  ASSUME NEW t \in Threads, NEW e \in Frames, Leave(t, e)
  PROVE  \E g \in Frames : Become(t, g) /\ LeaveIs(t, e, g)
<1> DEFINE others == \E u \in Threads : \E i \in DOMAIN stack[u] :
                       stack[u][i].lock = e.lock /\ ~(u = t /\ i = 1)
           dies == ~others /\ locks[e.name] = e.lock
           place == IF dies THEN "callback" ELSE "return"
           g == [e EXCEPT !.lock = None, !.at = place]
<1>1. /\ locks' = IF dies THEN [locks EXCEPT ![e.name] = Dead] ELSE locks
      /\ Become(t, g)
  BY DEF Leave
<1>2. /\ g \in Frames /\ g.name = e.name /\ g.lock = None /\ g.loads = e.loads
      /\ g.module = e.module /\ g.at = place
  <2>1. place \in {"callback", "return"}
    OBVIOUS
  <2> HIDE DEF place
  <2> QED BY <2>1 DEF Frames
<1> HIDE DEF g
<1>3. LeaveIs(t, e, g)
  <2>1. CASE dies
    BY <1>1, <1>2, <2>1 DEF LeaveIs
  <2>2. CASE ~dies
    BY <1>1, <1>2, <2>2 DEF LeaveIs
  <2> QED BY <2>1, <2>2
<1> QED BY <1>1, <1>2, <1>3

\* Refuse and Unlock.
LEMMA LeaveKeeps ==
  ASSUME ImportAssumption, LockAssumption, IInv, NEW t \in Threads, NEW place \in {"acquire", "unlock"},
         At(t, place), NEW e \in Frames, e.name = Top(t).name, e.lock = Top(t).lock,
         e.loads = Top(t).loads, e.module = Top(t).module, Leave(t, e),
         UNCHANGED <<program, importLock, sys_modules, status, begun>>,
         owner' \in [LockIds -> Threads \cup {None}], count' \in [LockIds -> Nat],
         LocksCounted', Straight => place = "unlock"
  PROVE  IInv'
<1> DEFINE f == Top(t)
           n == f.name
<1>1. PICK g \in Frames : Become(t, g) /\ LeaveIs(t, e, g)
  BY LeaveStep
<1>2. /\ stack[t] # <<>> /\ f \in Frames /\ f.at = place /\ n \in Names
      /\ FrameSound(f) /\ f = stack[t][1] /\ 1 \in 1..Len(stack[t])
      /\ Straight => StraightSound /\ StraightFrame(t, 1)
  BY Innermost
<1>3. g.name = n /\ g.lock = None /\ g.loads = f.loads /\ g.module = f.module /\ g.at \in {"callback", "return"}
  BY <1>1 DEF LeaveIs
<1>4. HeadIs(t, g)
  BY <1>1, <1>2, BecomeStep DEF IInv
<1>5. f.lock \in LockIds /\ None \notin LockIds /\ Dead \notin LockIds /\ None # Dead
  BY <1>2, LockAssumption DEF FrameSound, Waiting, Entered, LockAssumption, ImportAssumption
<1>6. \A u \in Threads :
        /\ Len(stack'[u]) = Len(stack[u]) /\ Len(stack[u]) \in Nat
        /\ DOMAIN stack'[u] = 1..Len(stack[u]) /\ DOMAIN stack[u] = 1..Len(stack[u])
        /\ stack'[u] = <<>> <=> stack[u] = <<>>
        /\ \A i \in 1..Len(stack[u]) :
             /\ stack[u][i] \in Frames /\ stack'[u][i] \in Frames
             /\ u = t /\ i = 1 => stack'[u][i] = g /\ stack[u][i] = Top(t)
             /\ ~(u = t /\ i = 1) => stack'[u][i] = stack[u][i]
  BY <1>2, <1>4, OldFrames DEF IInv
<1>7. locks \in [Names -> LockIds \cup {None, Dead}]
  BY DEF IInv, TypeOK
<1>8. /\ \A m \in Names : locks'[m] \in LockIds => locks'[m] = locks[m]
      /\ \A m \in Names : m # n => locks'[m] = locks[m]
      /\ locks' \in [Names -> LockIds \cup {None, Dead}]
  BY <1>1, <1>2, <1>3, <1>5, <1>7 DEF LeaveIs
<1>9. TypeOK'
  BY <1>4, <1>8 DEF IInv, TypeOK, importLock, HeadIs
<1>10. StacksSound'
  <2>1. FrameSound(g)
    BY <1>2, <1>3, <1>5 DEF FrameSound, Waiting, Entered
  <2>2. \A x \in Names : Len(status'[x]) \in Nat /\ Len(status[x]) <= Len(status'[x])
    BY LenProperties DEF IInv, TypeOK
  <2>3. FrameSound(g)'
    BY <2>1 DEF FrameSound
  <2> QED BY <1>1, <1>2, <1>3, <2>2, <2>3, BecomeStacks DEF IInv
<1>11. /\ LookupsLocked'
       /\ ImportLockFree /\ (Top(t).at \in LookupPlaces => g.at \in LookupPlaces) => ImportLockFree'
  <2>1. g.at \in LookupPlaces => Top(t).at \in LookupPlaces
    BY <1>3 DEF LookupPlaces
  <2> QED BY <1>2, <1>4, <2>1, BecomeLookups DEF IInv, importLock
<1>12. LocksNamed'
  BY <1>2, <1>3, <1>4, <1>8, BecomeNamed DEF IInv
<1>13. NoStaleEntry'
  <2>1. ASSUME NEW m \in Names, locks'[m] \in LockIds
        PROVE  \E u \in Threads : \E i \in DOMAIN stack'[u] : stack'[u][i].lock = locks'[m]
    <3>1. locks'[m] = locks[m] /\ locks[m] \in Alive
      BY <1>8, <2>1 DEF IInv, NoStaleEntry
    <3>2. PICK u \in Threads : \E i \in DOMAIN stack[u] : stack[u][i].lock = locks[m]
      BY <3>1 DEF Alive
    <3>3. PICK i \in 1..Len(stack[u]) : stack[u][i].lock = locks[m]
      BY <1>6, <3>2
    <3>4. ASSUME NEW v \in Threads, NEW j \in 1..Len(stack[v]), stack[v][j].lock = locks[m],
                 ~(v = t /\ j = 1)
          PROVE  \E w \in Threads : \E k \in DOMAIN stack'[w] : stack'[w][k].lock = locks'[m]
      BY <1>6, <3>1, <3>4
    <3>5. CASE ~(u = t /\ i = 1)
      BY <3>3, <3>4, <3>5
    <3>6. CASE u = t /\ i = 1
      <4>1. locks[m] = f.lock
        BY <1>2, <3>3, <3>6
      <4>2. m = n
        <5>1. \A x \in Names : locks[x] = stack[t][1].lock => stack[t][1].name = x
          BY <1>2, <1>5 DEF IInv, LocksNamed
        <5> QED BY <1>2, <4>1, <5>1
      <4>3. g.at # "callback"
        BY <1>1, <1>2, <1>5, <1>7, <2>1, <4>2 DEF LeaveIs
      <4>4. PICK v \in Threads : \E j \in DOMAIN stack[v] :
              stack[v][j].lock = f.lock /\ ~(v = t /\ j = 1)
        BY <1>1, <1>3, <4>1, <4>2, <4>3 DEF LeaveIs
      <4>5. PICK j \in 1..Len(stack[v]) : stack[v][j].lock = f.lock /\ ~(v = t /\ j = 1)
        BY <1>6, <4>4
      <4> QED BY <3>4, <4>1, <4>5
    <3> QED BY <3>5, <3>6
  <2>2. ASSUME NEW m \in Names, locks'[m] = Dead
        PROVE  \E u \in Threads : At(u, "callback")' /\ Top(u)'.name = m
    <3>1. CASE locks[m] = Dead
      <4>1. PICK u \in Threads : At(u, "callback") /\ Top(u).name = m
        BY <3>1 DEF IInv, NoStaleEntry
      <4>2. u # t
        BY <1>2, <4>1 DEF At
      <4>3. stack'[u] = stack[u]
        BY <1>4, <4>2 DEF HeadIs
      <4> QED BY <4>1, <4>3 DEF At, Top
    <3>2. CASE locks[m] # Dead
      <4>1. m = n /\ g.at = "callback"
        BY <1>1, <1>3, <1>8, <2>2, <3>2 DEF LeaveIs
      <4>2. At(t, "callback")' /\ Top(t)'.name = m
        BY <1>3, <1>4, <4>1 DEF At, Top, HeadIs
      <4> QED BY <4>2
    <3> QED BY <3>1, <3>2
  <2> QED BY <2>1, <2>2 DEF NoStaleEntry, Alive
<1>14. ASSUME Straight' PROVE StraightSound'
  <2>1. Straight
    BY <1>14, StraightStays
  <2>2. LoadersLock'
    <3> SUFFICES ASSUME NEW u \in Threads, NEW i \in 1..Len(stack[u]),
                        stack'[u][i].loads, stack'[u][i].lock \in LockIds
                 PROVE  /\ locks'[stack'[u][i].name] = stack'[u][i].lock
                        /\ \A v \in Threads : \A j \in 1..Len(stack[v]) :
                             stack'[v][j].name = stack'[u][i].name =>
                               /\ stack'[v][j].at # "callback"
                               /\ stack'[v][j].lock \in LockIds =>
                                    stack'[v][j].lock = stack'[u][i].lock
      BY <1>6 DEF LoadersLock
    <3> DEFINE x == stack[u][i].name
               k == stack[u][i].lock
    <3>1. ~(u = t /\ i = 1) /\ stack'[u][i] = stack[u][i]
      BY <1>3, <1>5, <1>6
    <3>2. /\ locks[x] = k /\ x \in Names /\ k \in LockIds
          /\ \A v \in Threads : \A j \in 1..Len(stack[v]) :
               stack[v][j].name = x =>
                 /\ stack[v][j].at # "callback"
                 /\ stack[v][j].lock \in LockIds => stack[v][j].lock = k
      <4>1. x \in Names
        BY <1>6 DEF Frames
      <4> QED BY <2>1, <3>1, <4>1 DEF IInv, StraightSound, LoadersLock
    <3>3. ASSUME x = n PROVE g.at = "return" /\ locks' = locks
      <4>1. f.lock = k
        BY <1>2, <1>5, <3>2, <3>3
      <4>2. i \in DOMAIN stack[u]
        BY <1>6
      <4>3. g.at # "callback"
        BY <1>1, <3>1, <4>1, <4>2 DEF LeaveIs
      <4> QED BY <1>1, <1>3, <4>3 DEF LeaveIs
    <3>4. locks'[x] = k
      BY <1>8, <3>2, <3>3
    <3>5. ASSUME NEW v \in Threads, NEW j \in 1..Len(stack[v]), stack'[v][j].name = x
          PROVE  stack'[v][j].at # "callback" /\ (stack'[v][j].lock \in LockIds => stack'[v][j].lock = k)
      <4>1. CASE v = t /\ j = 1
        <5>1. stack'[v][j] = g
          BY <1>6, <4>1
        <5> QED BY <1>3, <1>5, <3>3, <3>5, <5>1
      <4>2. CASE ~(v = t /\ j = 1)
        <5>1. stack'[v][j] = stack[v][j]
          BY <1>6, <4>2
        <5> QED BY <3>2, <3>5, <5>1
      <4> QED BY <4>1, <4>2
    <3> QED BY <3>1, <3>4, <3>5
  <2>3. StraightFrame(t, 1)'
    <3>1. stack'[t][1] = g
      BY <1>2, <1>4 DEF HeadIs
    <3>2. f.at = "unlock"
      BY <1>2, <2>1
    <3> QED BY <1>2, <1>3, <2>1, <3>1, <3>2 DEF StraightFrame, Waiting
  <2>4. StraightFrames'
    <3>1. \A u \in Threads \ {t} : At(u, "load") => sys_modules'[Top(u).name] = 0
      <4> TAKE u \in Threads \ {t}
      <4> HAVE At(u, "load")
      <4>1. StraightFrame(u, 1) /\ Top(u) = stack[u][1] /\ Top(u).at = "load"
        BY <2>1, Innermost
      <4> QED BY <4>1 DEF StraightFrame
    <3> QED BY <1>2, <1>3, <1>4, <2>1, <2>3, <3>1, BecomeStraight DEF IInv, StraightSound
  <2>5. ModulesRun'
    BY <1>2, <1>3, <1>4, <2>1, BecomeModules DEF IInv, StraightSound
  <2>6. ImportLockFree'
    BY <1>2, <1>11, <2>1 DEF StraightSound, LookupPlaces
  <2> QED BY <2>2, <2>4, <2>5, <2>6 DEF StraightSound
<1> QED BY <1>9, <1>10, <1>11, <1>12, <1>13, <1>14 DEF IInv

LEMMA RefuseKeeps ==
  ASSUME ImportAssumption, LockAssumption, IInv, NEW t \in Threads, Refuse(t)
  PROVE  IInv'
<1> DEFINE f == Top(t)
           e == [f EXCEPT !.refused = TRUE]
<1>1. /\ At(t, "acquire") /\ owner[f.lock] \notin {None, t} /\ Circle(t, f.lock) /\ Leave(t, e)
      /\ UNCHANGED <<program, importLock, sys_modules, status, begun>> /\ UNCHANGED moduleLocks
  BY DEF Refuse
<1>2. /\ stack[t] # <<>> /\ f \in Frames /\ f.at = "acquire"
  BY <1>1, Innermost
<1>3. /\ e \in Frames /\ e.name = f.name /\ e.lock = f.lock /\ e.loads = f.loads
      /\ e.module = f.module
  BY <1>2 DEF Frames
<1> HIDE DEF e
<1>4. owner' = owner /\ count' = count
  BY <1>1 DEF moduleLocks
<1>5. LocksCounted'
  <2>1. PICK g \in Frames : Become(t, g) /\ LeaveIs(t, e, g)
    BY <1>1, <1>3, LeaveStep
  <2>2. HeadIs(t, g)
    BY <1>2, <2>1, BecomeStep DEF IInv
  <2>3. \A l \in LockIds : HoldsIt(Top(t), l) <=> HoldsIt(g, l)
    BY <1>2, <2>1, LockAssumption DEF HoldsIt, Waiting, LeaveIs, LockAssumption
  <2> QED BY <1>2, <1>4, <2>2, <2>3, BecomeCounted DEF IInv
<1>6. ~Straight
  BY <1>1, NoCircleOfThreads
<1>7. owner' \in [LockIds -> Threads \cup {None}] /\ count' \in [LockIds -> Nat]
  BY <1>4 DEF IInv, TypeOK
<1> QED BY <1>1, <1>3, <1>5, <1>6, <1>7, LeaveKeeps

LEMMA UnlockKeeps ==
  ASSUME ImportAssumption, LockAssumption, IInv, NEW t \in Threads, Unlock(t)
  PROVE  IInv'
<1> DEFINE f == Top(t)
           l == f.lock
<1>1. /\ At(t, "unlock") /\ Leave(t, f)
      /\ count' = [count EXCEPT ![l] = @ - 1]
      /\ owner' = [owner EXCEPT ![l] = IF count[l] = 1 THEN None ELSE @]
      /\ UNCHANGED <<program, importLock, sys_modules, status, begun>>
  BY DEF Unlock
<1>2. /\ stack[t] # <<>> /\ f \in Frames /\ f.at = "unlock" /\ f = stack[t][1]
      /\ 1 \in 1..Len(stack[t]) /\ FrameSound(f)
  BY <1>1, Innermost
<1>3. l \in LockIds /\ None \notin Threads /\ None \notin LockIds
  BY <1>2, LockAssumption DEF FrameSound, Waiting, Entered, ImportAssumption, LockAssumption
<1>4. owner[l] = t /\ count[l] \in Nat \ {0}
  <2>1. HoldsIt(stack[t][1], l)
    BY <1>2 DEF HoldsIt, Waiting
  <2> QED BY <1>2, <1>3, <2>1, HolderOwns DEF IInv
<1>5. /\ owner' \in [LockIds -> Threads \cup {None}] /\ count' \in [LockIds -> Nat]
      /\ count'[l] = count[l] - 1 /\ owner'[l] = (IF count[l] = 1 THEN None ELSE t)
      /\ \A k \in LockIds : k # l => owner'[k] = owner[k] /\ count'[k] = count[k]
  <2>1. owner \in [LockIds -> Threads \cup {None}] /\ count \in [LockIds -> Nat]
    BY DEF IInv, TypeOK
  <2>2. count[l] - 1 \in Nat
    BY <1>4
  <2> QED BY <1>1, <1>3, <1>4, <2>1, <2>2
<1>6. LocksCounted'
  <2>1. PICK g \in Frames : Become(t, g) /\ LeaveIs(t, f, g)
    BY <1>1, <1>2, LeaveStep
  <2>2. HeadIs(t, g)
    BY <1>2, <2>1, BecomeStep DEF IInv
  <2> SUFFICES ASSUME NEW k \in LockIds
               PROVE  /\ owner'[k] = None <=> count'[k] = 0
                      /\ \A u \in Threads :
                           (IF owner'[k] = u THEN count'[k] ELSE 0)
                           = Cardinality(Holds(stack'[u], k))
    BY DEF LocksCounted, Holds
  <2>3. /\ owner[k] = None <=> count[k] = 0
        /\ \A u \in Threads :
             (IF owner[k] = u THEN count[k] ELSE 0) = Cardinality(Holds(stack[u], k))
    BY DEF IInv, LocksCounted
  <2>4. \A u \in Threads :
          Cardinality(Holds(stack'[u], k)) =
            IF u # t \/ (HoldsIt(Top(t), k) <=> HoldsIt(g, k)) THEN Cardinality(Holds(stack[u], k))
            ELSE IF HoldsIt(g, k) THEN Cardinality(Holds(stack[u], k)) + 1
                 ELSE Cardinality(Holds(stack[u], k)) - 1
    BY <1>2, <2>2, BecomeHolds DEF IInv
  <2>5. (HoldsIt(Top(t), k) <=> k = l) /\ ~HoldsIt(g, k)
    BY <1>2, <1>3, <2>1 DEF HoldsIt, Waiting, LeaveIs
  <2>6. CASE k # l
    BY <1>5, <2>3, <2>4, <2>5, <2>6
  <2>7. CASE k = l
    <3>1. owner'[k] = None <=> count'[k] = 0
      BY <1>3, <1>4, <1>5, <2>7
    <3>2. ASSUME NEW u \in Threads
          PROVE  (IF owner'[k] = u THEN count'[k] ELSE 0) = Cardinality(Holds(stack'[u], k))
      <4>1. CASE u = t
        <5>1. Cardinality(Holds(stack[t], k)) = count[k]
          BY <1>4, <2>3, <2>7
        <5>2. Cardinality(Holds(stack'[t], k)) = count[k] - 1
          BY <2>4, <2>5, <2>7, <5>1
        <5> QED BY <1>3, <1>4, <1>5, <2>7, <4>1, <5>2
      <4>2. CASE u # t
        <5>1. Cardinality(Holds(stack[u], k)) = 0
          BY <1>4, <2>3, <2>7, <4>2
        <5>2. owner'[k] # u
          BY <1>3, <1>5, <2>7, <4>2
        <5> QED BY <2>4, <4>2, <5>1, <5>2
      <4> QED BY <4>1, <4>2
    <3> QED BY <3>1, <3>2
  <2> QED BY <2>6, <2>7
<1> QED BY <1>1, <1>2, <1>5, <1>6, LeaveKeeps

LEMMA CallbackKeeps ==
  ASSUME ImportAssumption, LockAssumption, IInv, NEW t \in Threads, Callback(t)
  PROVE  IInv'
<1> DEFINE f == Top(t)
           n == f.name
           g == [f EXCEPT !.at = "return"]
<1>1. /\ At(t, "callback") /\ Become(t, g) /\ locks' = [locks EXCEPT ![n] = None]
      /\ UNCHANGED <<program, importLock, moduleLocks, sys_modules, status, begun>>
  BY DEF Callback, Goto
<1>2. /\ stack[t] # <<>> /\ f \in Frames /\ f.at = "callback" /\ n \in Names
      /\ FrameSound(f) /\ f = stack[t][1] /\ 1 \in 1..Len(stack[t])
      /\ Straight => StraightSound /\ StraightFrame(t, 1)
  BY <1>1, Innermost
<1>3. /\ g \in Frames /\ g.name = n /\ g.lock = f.lock /\ g.loads = f.loads
      /\ g.module = f.module /\ g.at = "return"
  BY <1>2 DEF Frames
<1>4. HeadIs(t, g)
  BY <1>1, <1>2, <1>3, BecomeStep DEF IInv
<1> HIDE DEF g
<1>5. f.lock \notin LockIds /\ None \notin LockIds /\ Dead \notin LockIds /\ None # Dead
  BY <1>2, LockAssumption DEF FrameSound, Waiting, Entered, LockAssumption, ImportAssumption
<1>6. \A u \in Threads :
        /\ Len(stack'[u]) = Len(stack[u]) /\ Len(stack[u]) \in Nat
        /\ DOMAIN stack'[u] = 1..Len(stack[u]) /\ DOMAIN stack[u] = 1..Len(stack[u])
        /\ stack'[u] = <<>> <=> stack[u] = <<>>
        /\ \A i \in 1..Len(stack[u]) :
             /\ stack[u][i] \in Frames /\ stack'[u][i] \in Frames
             /\ u = t /\ i = 1 => stack'[u][i] = g /\ stack[u][i] = Top(t)
             /\ ~(u = t /\ i = 1) => stack'[u][i] = stack[u][i]
  BY <1>2, <1>3, <1>4, OldFrames DEF IInv
<1>7. /\ \A m \in Names : locks'[m] = IF m = n THEN None ELSE locks[m]
      /\ locks' \in [Names -> LockIds \cup {None, Dead}]
  BY <1>1, <1>2 DEF IInv, TypeOK
<1>8. TypeOK'
  BY <1>1, <1>4, <1>7 DEF IInv, TypeOK, importLock, moduleLocks, HeadIs
<1>9. StacksSound'
  <2>1. FrameSound(g)
    BY <1>2, <1>3 DEF FrameSound, Waiting, Entered
  <2>2. \A x \in Names : Len(status'[x]) \in Nat /\ Len(status[x]) <= Len(status'[x])
    BY <1>1, LenProperties DEF IInv, TypeOK
  <2>3. PICK h \in Frames : h = g /\ Become(t, h)
    BY <1>1, <1>3
  <2>4. FrameSound(h)'
    BY <1>1, <2>1, <2>3 DEF FrameSound
  <2>5. h.name = Top(t).name /\ program' = program
    BY <1>1, <1>3, <2>3
  <2> QED BY <1>2, <2>2, <2>3, <2>4, <2>5, BecomeStacks DEF IInv
<1>10. /\ LookupsLocked'
       /\ ImportLockFree /\ (Top(t).at \in LookupPlaces => g.at \in LookupPlaces) => ImportLockFree'
  BY <1>1, <1>2, <1>3, <1>4, BecomeLookups DEF IInv, importLock, LookupPlaces
<1>11. LocksNamed'
  BY <1>2, <1>3, <1>4, <1>5, <1>7, BecomeNamed DEF IInv
<1>12. LocksCounted'
  <2>1. \A l \in LockIds : HoldsIt(Top(t), l) <=> HoldsIt(g, l)
    BY <1>2, <1>3 DEF HoldsIt, Waiting
  <2> QED BY <1>1, <1>2, <1>3, <1>4, <2>1, BecomeCounted DEF IInv, moduleLocks
<1>13. NoStaleEntry'
  <2>1. ASSUME NEW m \in Names, locks'[m] \in LockIds
        PROVE  \E u \in Threads : \E i \in DOMAIN stack'[u] : stack'[u][i].lock = locks'[m]
    <3>1. locks'[m] = locks[m] /\ locks[m] \in Alive
      BY <1>5, <1>7, <2>1 DEF IInv, NoStaleEntry
    <3>2. PICK u \in Threads : \E i \in DOMAIN stack[u] : stack[u][i].lock = locks[m]
      BY <3>1 DEF Alive
    <3>3. PICK i \in 1..Len(stack[u]) : stack[u][i].lock = locks[m]
      BY <1>6, <3>2
    <3>4. ~(u = t /\ i = 1)
      BY <1>2, <1>5, <2>1, <3>1, <3>3
    <3> QED BY <1>6, <3>1, <3>3, <3>4
  <2>2. ASSUME NEW m \in Names, locks'[m] = Dead
        PROVE  \E u \in Threads : At(u, "callback")' /\ Top(u)'.name = m
    <3>1. locks[m] = Dead /\ m # n
      BY <1>5, <1>7, <2>2
    <3>2. PICK u \in Threads : At(u, "callback") /\ Top(u).name = m
      BY <3>1 DEF IInv, NoStaleEntry
    <3>3. stack'[u] = stack[u]
      BY <1>4, <3>1, <3>2 DEF HeadIs
    <3> QED BY <3>2, <3>3 DEF At, Top
  <2> QED BY <2>1, <2>2 DEF NoStaleEntry, Alive
<1>14. ASSUME Straight' PROVE StraightSound'
  <2>1. Straight
    BY <1>1, <1>14, StraightStays
  <2>2. LoadersLock'
    <3> SUFFICES ASSUME NEW u \in Threads, NEW i \in 1..Len(stack[u]),
                        stack'[u][i].loads, stack'[u][i].lock \in LockIds
                 PROVE  /\ locks'[stack'[u][i].name] = stack'[u][i].lock
                        /\ \A v \in Threads : \A j \in 1..Len(stack[v]) :
                             stack'[v][j].name = stack'[u][i].name =>
                               /\ stack'[v][j].at # "callback"
                               /\ stack'[v][j].lock \in LockIds =>
                                    stack'[v][j].lock = stack'[u][i].lock
      BY <1>6 DEF LoadersLock
    <3>1. ~(u = t /\ i = 1) /\ stack'[u][i] = stack[u][i]
      BY <1>3, <1>5, <1>6
    <3>2. /\ locks[stack[u][i].name] = stack[u][i].lock /\ stack[u][i].name \in Names
          /\ \A v \in Threads : \A j \in 1..Len(stack[v]) :
               stack[v][j].name = stack[u][i].name =>
                 /\ stack[v][j].at # "callback"
                 /\ stack[v][j].lock \in LockIds => stack[v][j].lock = stack[u][i].lock
      <4>1. stack[u][i].name \in Names
        BY <1>6 DEF Frames
      <4> QED BY <2>1, <3>1, <4>1 DEF IInv, StraightSound, LoadersLock
    <3>3. stack[u][i].name # n
      BY <1>2, <3>2
    <3>4. ASSUME NEW v \in Threads, NEW j \in 1..Len(stack[v]), stack'[v][j].name = stack[u][i].name
          PROVE  /\ stack'[v][j].at # "callback"
                 /\ stack'[v][j].lock \in LockIds => stack'[v][j].lock = stack[u][i].lock
      <4>1. stack'[v][j] = stack[v][j]
        BY <1>3, <1>6, <3>3, <3>4
      <4> QED BY <3>2, <3>4, <4>1
    <3> QED BY <1>7, <3>1, <3>2, <3>3, <3>4
  <2>3. StraightFrame(t, 1)'
    <3>1. stack'[t][1] = g
      BY <1>2, <1>4 DEF HeadIs
    <3> QED BY <1>1, <1>2, <1>3, <2>1, <3>1 DEF StraightFrame, Waiting
  <2>4. StraightFrames'
    <3>1. \A u \in Threads \ {t} : At(u, "load") => sys_modules'[Top(u).name] = 0
      <4> TAKE u \in Threads \ {t}
      <4> HAVE At(u, "load")
      <4>1. StraightFrame(u, 1) /\ Top(u) = stack[u][1] /\ Top(u).at = "load"
        BY <2>1, Innermost
      <4> QED BY <1>1, <4>1 DEF StraightFrame
    <3> QED BY <1>1, <1>2, <1>3, <1>4, <2>1, <2>3, <3>1, BecomeStraight DEF IInv, StraightSound
  <2>5. ModulesRun'
    BY <1>1, <1>2, <1>3, <1>4, <2>1, BecomeModules DEF IInv, StraightSound
  <2>6. ImportLockFree'
    BY <1>2, <1>10, <2>1 DEF StraightSound, LookupPlaces
  <2> QED BY <2>2, <2>4, <2>5, <2>6 DEF StraightSound
<1> QED BY <1>8, <1>9, <1>10, <1>11, <1>12, <1>13, <1>14 DEF IInv

-----------------------------------------------------------------------------
(* Every step.                                                             *)

LEMMA InitKeeps ==
  ASSUME ImportAssumption, LockAssumption, Init
  PROVE  IInv
<1>1. /\ \A t \in Threads : stack[t] = <<>> /\ Len(stack[t]) = 0 /\ DOMAIN stack[t] = {}
      /\ \A n \in Names : status[n] = <<>> /\ Len(status[n]) = 0
  BY DEF Init
<1>2. TypeOK
  BY <1>1 DEF Init, TypeOK
<1>3. \A t \in Threads : \A place : ~At(t, place)
  BY <1>1 DEF At
<1>4. LookupsLocked /\ StacksSound /\ LocksNamed /\ ImportLockFree /\ StraightFrames /\ LoadersLock
  <2>1. \A t \in Threads : 1..Len(stack[t]) = {}
    BY <1>1
  <2> QED BY <1>1, <1>3, <2>1 DEF Init, LookupsLocked, StacksSound, LocksNamed, ImportLockFree,
          StraightFrames, LoadersLock, ImportAssumption
<1>5. LocksCounted
  <2>1. \A t \in Threads : \A l \in LockIds : Holds(stack[t], l) = {}
    BY <1>1 DEF Holds
  <2>2. Cardinality({}) = 0
    BY FS_EmptySet
  <2> QED BY <2>1, <2>2 DEF Init, LocksCounted
<1>6. NoStaleEntry
  BY DEF Init, NoStaleEntry, LockAssumption, ImportAssumption
<1>7. ModulesRun
  <2>1. \A n \in Names : 1..Len(status[n]) = {}
    BY <1>1
  <2> QED BY <2>1 DEF ModulesRun
<1> QED BY <1>2, <1>4, <1>5, <1>6, <1>7 DEF IInv, StraightSound

LEMMA SameKeeps ==
  ASSUME IInv, UNCHANGED vars
  PROVE  IInv'
<1>1. /\ program' = program /\ holder' = holder /\ level' = level /\ locks' = locks
      /\ owner' = owner /\ count' = count /\ sys_modules' = sys_modules /\ status' = status
      /\ stack' = stack /\ begun' = begun
  BY DEF vars
<1>2. TypeOK'
  BY <1>1 DEF IInv, TypeOK
<1>3. LookupsLocked' /\ (ImportLockFree => ImportLockFree')
  BY <1>1 DEF IInv, LookupsLocked, ImportLockFree, At, Top
<1>4. StacksSound'
  <2>1. \A n : Needs(n)' = Needs(n)
    BY <1>1, NeedsStay
  <2> QED BY <1>1, <2>1 DEF IInv, StacksSound, FrameSound
<1>5. LocksNamed' /\ LocksCounted' /\ NoStaleEntry'
  BY <1>1 DEF IInv, LocksNamed, LocksCounted, Holds, NoStaleEntry, Alive, At, Top
<1>6. Straight' <=> Straight
  BY <1>1, StraightStays
<1>7. /\ StraightFrames => StraightFrames'
      /\ LoadersLock => LoadersLock'
      /\ ModulesRun => ModulesRun'
  BY <1>1 DEF StraightFrames, StraightFrame, LoadersLock, ModulesRun
<1> QED BY <1>2, <1>3, <1>4, <1>5, <1>6, <1>7 DEF IInv, StraightSound

\* Every step keeps the invariant.
LEMMA NextKeeps ==
  ASSUME ImportAssumption, LockAssumption, IInv, [Next]_vars
  PROVE  IInv'
<1>1. CASE UNCHANGED vars \/ Finished
  BY <1>1, SameKeeps DEF Finished
<1>2. ASSUME NEW t \in Threads, NEW n \in Names, Import(t, n) PROVE IInv'
  BY <1>2, ImportKeeps
<1>3. ASSUME NEW t \in Threads, Proceed(t) PROVE IInv'
  <2>1. CASE Lookup(t)
    BY <2>1, LookupKeeps
  <2>2. CASE Fetch(t)
    BY <2>2, FetchKeeps
  <2>3. CASE GetLock(t)
    BY <2>3, GetLockKeeps
  <2>4. CASE Acquire(t)
    BY <2>4, AcquireKeeps
  <2>5. CASE Sleep(t)
    BY <2>5, SleepKeeps
  <2>6. CASE Wake(t)
    BY <2>6, WakeKeeps
  <2>7. CASE Refuse(t)
    BY <2>7, RefuseKeeps
  <2>8. CASE Unlock(t)
    BY <2>8, UnlockKeeps
  <2>9. CASE Callback(t)
    BY <2>9, CallbackKeeps
  <2>10. CASE FindParent(t)
    BY <2>10, FindParentKeeps
  <2>11. CASE Recheck(t)
    BY <2>11, RecheckKeeps
  <2>12. CASE Install(t)
    BY <2>12, InstallKeeps
  <2>13. CASE NotFound(t) \/ BodyRaises(t)
    BY <2>13, FailureKeeps
  <2>14. CASE RunBody(t)
    BY <2>14, RunBodyKeeps
  <2>15. CASE Complete(t)
    BY <2>15, CompleteKeeps
  <2>16. CASE Uninstall(t)
    BY <2>16, UninstallKeeps
  <2>17. CASE Return(t)
    BY <2>17, ReturnKeeps
  <2> QED BY <1>3, <2>1, <2>2, <2>3, <2>4, <2>5, <2>6, <2>7, <2>8, <2>9, <2>10, <2>11, <2>12,
             <2>13, <2>14, <2>15, <2>16, <2>17 DEF Proceed
<1> QED BY <1>1, <1>2, <1>3 DEF Next

\* Type correctness, the counts and owners of locks, the table of locks, the order
\* of stacks and what straight programs have besides are true in every reachable state.
THEOREM Invariance == Spec => []IInv
<1>1. Init => IInv
  BY InitKeeps, ImportAssumption, LockAssumption
<1>2. IInv /\ [Next]_vars => IInv'
  BY NextKeeps, ImportAssumption, LockAssumption
<1> QED BY <1>1, <1>2, PTL DEF Spec

LEMMA InvariantKeepsLocks ==
  ASSUME IInv
  PROVE  LocksKept
<1>1. LocksReleased
  <2>1. ASSUME NEW l \in LockIds
        PROVE  /\ owner[l] = None <=> count[l] = 0
               /\ \A t \in Threads :
                    (IF owner[l] = t THEN count[l] ELSE 0)
                    = Cardinality({i \in DOMAIN stack[t] :
                        stack[t][i].lock = l /\ stack[t][i].at \notin {"acquire", "asleep"}})
    BY DEF IInv, LocksCounted, Holds, Waiting
  <2> QED BY <2>1 DEF LocksReleased, IInv, StraightSound
<1> QED BY <1>1 DEF LocksKept, IInv

LEMMA InvariantIsStraight ==
  ASSUME IInv
  PROVE  StraightImports
<1>1. ExclusiveLoad
  <2> SUFFICES ASSUME Straight, NEW n \in Names, NEW t \in Threads, NEW u \in Threads,
                      Loads(t, n), Loads(u, n)
               PROVE  t = u
    BY DEF ExclusiveLoad
  <2>1. \A v \in Threads : DOMAIN stack[v] = 1..Len(stack[v])
    BY Tops DEF IInv
  <2>2. PICK i \in 1..Len(stack[t]) :
          stack[t][i].name = n /\ stack[t][i].loads /\ stack[t][i].at \in Entered
    BY <2>1 DEF Loads, Entered
  <2>3. PICK j \in 1..Len(stack[u]) :
          stack[u][j].name = n /\ stack[u][j].loads /\ stack[u][j].at \in Entered
    BY <2>1 DEF Loads, Entered
  <2> QED BY <2>2, <2>3, OneLoader, ImportAssumption
<1>2. ASSUME Straight, NEW t \in Threads, At(t, "return")
      PROVE  Top(t).module # 0 /\ status[Top(t).name][Top(t).module] = "complete"
  <2>1. Top(t) = stack[t][1] /\ Top(t).at = "return" /\ StraightFrame(t, 1)
    BY <1>2, Innermost, ImportAssumption
  <2> QED BY <2>1 DEF StraightFrame
<1> QED BY <1>1, <1>2 DEF StraightImports, NoneIncomplete, StraightSucceeds

\* Whatever fails, in whichever order threads run, a module lock belongs to the
\* thread whose frames have acquired it, that many times, and the table has no entry
\* without its lock; the import lock is given back when nothing fails and no modules
\* import each other in a circle.
THEOREM LocksAreKept == Spec => []LocksKept
BY Invariance, InvariantKeepsLocks, PTL

\* Without failures and circles: no two threads load one module at the same time,
\* every import returns a complete module, and none raises.
THEOREM StraightImportsWork == Spec => []StraightImports
BY Invariance, InvariantIsStraight, PTL
=============================================================================

-------------------------- MODULE ThreadPoolProofs --------------------------
(***************************************************************************)
(* Theorems about concurrent.futures.Future, wait() and as_completed(),    *)
(* for any finite set of futures, any clients, executors and numbers of    *)
(* calls; and about ThreadPoolExecutor, for any finite number of workers   *)
(* and any program.                                                        *)
(*                                                                         *)
(* The first part proves FutureIInv of FutureSpec.  What it says of a      *)
(* client is Honest, a predicate of the client's record and of the         *)
(* futures: the lemmas about it follow one record through what happens to  *)
(* one future.                                                             *)
(*                                                                         *)
(* The second part shows that the pool implements FutureSpec: its          *)
(* inductive invariant says that each work item is in one place, so a      *)
(* worker finishes only what it began, and what the first part proves of   *)
(* futures holds of the pool's futures.  The invariant also follows the    *)
(* work behind the Nones that stop the workers, and shows that shutdown()  *)
(* leaves nothing undone.                                                  *)
(***************************************************************************)
EXTENDS ThreadPool, SequenceTheorems, FiniteSetTheorems, TLAPS

-----------------------------------------------------------------------------
(* Part one: futures                                                       *)

-----------------------------------------------------------------------------
(* Lists.                                                                  *)

LEMMA AppendList ==
  ASSUME NEW S, NEW s \in Seq(S), NEW x \in S
  PROVE  /\ Append(s, x) \in Seq(S) /\ Append(s, x) # <<>>
         /\ ToSet(Append(s, x)) = ToSet(s) \cup {x}
         /\ IsInjective(s) /\ x \notin ToSet(s) => IsInjective(Append(s, x))
<1> DEFINE a == Append(s, x)
<1>1. /\ a \in Seq(S) /\ Len(a) = Len(s) + 1 /\ Len(s) \in Nat
      /\ DOMAIN a = 1..Len(a) /\ DOMAIN s = 1..Len(s)
      /\ \A i \in 1..Len(s) : a[i] = s[i]
      /\ a[Len(s) + 1] = x
  BY AppendProperties, LenProperties
<1>2. a # <<>>
  BY <1>1, EmptySeq
<1> HIDE DEF a
<1>3. ToSet(a) = ToSet(s) \cup {x}
  <2>1. ASSUME NEW y \in ToSet(a) PROVE y \in ToSet(s) \cup {x}
    BY <1>1, <2>1 DEF ToSet
  <2>2. ASSUME NEW y \in ToSet(s) PROVE y \in ToSet(a)
    BY <1>1, <2>2 DEF ToSet
  <2>3. x \in ToSet(a)
    BY <1>1 DEF ToSet
  <2> QED BY <2>1, <2>2, <2>3
<1>4. ASSUME IsInjective(s), x \notin ToSet(s) PROVE IsInjective(a)
  BY <1>1, <1>4 DEF IsInjective, ToSet
<1> QED BY <1>1, <1>2, <1>3, <1>4 DEF a

LEMMA TailList ==
  ASSUME NEW S, NEW s \in Seq(S), s # <<>>
  PROVE  /\ 1 \in DOMAIN s /\ Head(s) = s[1] /\ Head(s) \in S
         /\ Tail(s) \in Seq(S)
         /\ \A i \in DOMAIN Tail(s) : i + 1 \in DOMAIN s /\ Tail(s)[i] = s[i + 1] /\ i \in Nat \ {0}
         /\ \A i \in DOMAIN s : i # 1 => i - 1 \in DOMAIN Tail(s) /\ Tail(s)[i - 1] = s[i]
<1> DEFINE r == Tail(s)
<1>1. /\ Head(s) \in S /\ r \in Seq(S) /\ Len(r) = Len(s) - 1
      /\ \A i \in 1..Len(r) : r[i] = s[i + 1]
      /\ Len(s) \in Nat \ {0}
      /\ Head(s) = s[1]
      /\ DOMAIN s = 1..Len(s) /\ DOMAIN r = 1..Len(r)
  BY HeadTailProperties, EmptySeq, LenProperties
<1> HIDE DEF r
<1> QED BY <1>1 DEF r

LEMMA ConcatList ==
  ASSUME NEW S, NEW s \in Seq(S), NEW t \in Seq(S)
  PROVE  /\ s \o t \in Seq(S)
         /\ ToSet(s \o t) = ToSet(s) \cup ToSet(t)
         /\ IsInjective(s) /\ IsInjective(t) /\ ToSet(s) \cap ToSet(t) = {} => IsInjective(s \o t)
<1> DEFINE c == s \o t
<1>1. /\ c \in Seq(S) /\ Len(c) = Len(s) + Len(t) /\ Len(s) \in Nat /\ Len(t) \in Nat
      /\ \A i \in 1..(Len(s) + Len(t)) : c[i] = IF i <= Len(s) THEN s[i] ELSE t[i - Len(s)]
      /\ DOMAIN c = 1..Len(c) /\ DOMAIN s = 1..Len(s) /\ DOMAIN t = 1..Len(t)
  BY ConcatProperties, LenProperties
<1> HIDE DEF c
<1>2. ToSet(c) = ToSet(s) \cup ToSet(t)
  <2>1. ASSUME NEW y \in ToSet(c) PROVE y \in ToSet(s) \cup ToSet(t)
    BY <1>1, <2>1 DEF ToSet
  <2>2. ASSUME NEW y \in ToSet(s) PROVE y \in ToSet(c)
    BY <1>1, <2>2 DEF ToSet
  <2>3. ASSUME NEW y \in ToSet(t) PROVE y \in ToSet(c)
    <3>1. PICK i \in 1..Len(t) : t[i] = y
      BY <1>1, <2>3 DEF ToSet
    <3>2. i + Len(s) \in 1..Len(c) /\ c[i + Len(s)] = y
      BY <1>1, <3>1
    <3> QED BY <1>1, <3>2 DEF ToSet
  <2> QED BY <2>1, <2>2, <2>3
<1>3. ASSUME IsInjective(s), IsInjective(t), ToSet(s) \cap ToSet(t) = {} PROVE IsInjective(c)
  <2> SUFFICES ASSUME NEW i \in DOMAIN c, NEW j \in DOMAIN c, c[i] = c[j] PROVE i = j
    BY DEF IsInjective
  <2>1. i \in DOMAIN s \/ i - Len(s) \in DOMAIN t
    BY <1>1
  <2>2. j \in DOMAIN s \/ j - Len(s) \in DOMAIN t
    BY <1>1
  <2>3. \A k \in DOMAIN s : s[k] \in ToSet(s)
    BY DEF ToSet
  <2>4. \A k \in DOMAIN t : t[k] \in ToSet(t)
    BY DEF ToSet
  <2>5. i <= Len(s) <=> j <= Len(s)
    BY <1>1, <1>3, <2>1, <2>2, <2>3, <2>4
  <2>6. CASE i <= Len(s)
    <3>1. i \in DOMAIN s /\ j \in DOMAIN s /\ s[i] = s[j]
      BY <1>1, <2>5, <2>6
    <3> QED BY <1>3, <3>1 DEF IsInjective
  <2>7. CASE ~(i <= Len(s))
    <3>1. /\ i - Len(s) \in DOMAIN t /\ j - Len(s) \in DOMAIN t
          /\ t[i - Len(s)] = t[j - Len(s)]
      BY <1>1, <2>5, <2>7
    <3>2. i - Len(s) = j - Len(s)
      BY <1>3, <3>1 DEF IsInjective
    <3> QED BY <1>1, <3>2
  <2> QED BY <2>6, <2>7
<1> QED BY <1>1, <1>2, <1>3 DEF c

\* list(done): each element once.
LEMMA SetList ==
  ASSUME NEW S, IsFiniteSet(S)
  PROVE  /\ SetToSeq(S) \in Seq(S) /\ IsInjective(SetToSeq(S)) /\ ToSet(SetToSeq(S)) = S
<1> DEFINE n == Cardinality(S)
<1>1. n \in Nat /\ ExistsBijection(1..n, S)
  BY FS_CardinalityType
<1>2. PICK b \in Bijection(1..n, S) : TRUE
  BY <1>1 DEF ExistsBijection
<1>3. b \in [1..n -> S] /\ IsInjective(b)
  BY <1>2 DEF Bijection, Injection, IsInjective
<1> DEFINE f == SetToSeq(S)
<1>4. f \in [1..n -> S] /\ IsInjective(f)
  BY <1>3 DEF SetToSeq
<1>5. IsFiniteSet(1..n) /\ Cardinality(1..n) = n
  BY <1>1, FS_Interval
<1>6. f \in Injection(1..n, S)
  BY <1>4 DEF Injection, IsInjective
<1>7. f \in Surjection(1..n, S)
  BY <1>1, <1>5, <1>6, FS_Injection
<1>8. \A x \in S : \E i \in 1..n : f[i] = x
  BY <1>7 DEF Surjection
<1>9. DOMAIN f = 1..n /\ f \in Seq(S)
  BY <1>1, <1>4, SeqDef
<1> HIDE DEF f, n
<1> QED BY <1>4, <1>8, <1>9 DEF f, ToSet

-----------------------------------------------------------------------------
(* What happens to a future, and what its waiters make of it.              *)

\* The future f, which was not settled, gets state s.
Moves(f, s) ==
  /\ state[f] \notin Settled
  /\ state' = [state EXCEPT ![f] = s]
  /\ \A g \in Futures \ {f} : raised'[g] = raised[g]
  /\ s \notin Settled => raised' = raised

\* The waiter of this record is installed on f.
Installed(r, f) == r.pc \in {"wait", "generate", "remove"} /\ f \in r.rest

\* Who does not wait for f stays honest.
LEMMA NotConcerned ==
  ASSUME FutureTypeOK, NEW r \in CallRecords, Honest(r),
         NEW f \in Futures, NEW s \in States, Moves(f, s),
         s \in Settled => ~Installed(r, f),
         r.pc = "result" /\ f \in r.fs => (state[f] \in Done <=> s \in Done)
  PROVE  Honest(r)'
<1>1. /\ \A g \in Futures \ {f} : state'[g] = state[g] /\ raised'[g] = raised[g]
      /\ state'[f] = s /\ state[f] \notin Settled
  BY DEF FutureTypeOK, Moves
<1>2. r.fs \subseteq Futures /\ ToSet(r.got) \subseteq Futures /\ ToSet(r.finished) \subseteq Futures
  BY DEF CallRecords, ToSet
<1>3. SeenIsSettled(r)'
  BY <1>1, <1>2 DEF Honest, SeenIsSettled, Seen, Installed
<1>4. ASSUME r.pc \in {"wait", "remove"}
      PROVE  Sufficient(r, Seen(r))' <=> Sufficient(r, Seen(r))
  <2>1. \A g \in Seen(r) : raised'[g] = raised[g]
    BY <1>1, <1>2, <1>4 DEF Honest, SeenIsSettled, Seen
  <2> QED BY <2>1 DEF Sufficient, Seen
<1>5. EventTrue(r)'
  <2>1. r.pc = "result" => \A g \in r.fs : state'[g] \in Done <=> state[g] \in Done
    BY <1>1, <1>2
  <2>2. r.pc = "wait" => (Seen(r)' = Seen(r) /\ (Sufficient(r, Seen(r))' <=> Sufficient(r, Seen(r))))
    BY <1>4 DEF Seen
  <2> QED BY <2>1, <2>2 DEF Honest, EventTrue
<1>6. LateTrue(r)'
  BY <1>4 DEF Honest, LateTrue
<1>7. AnswerTrue(r)'
  BY <1>1, <1>2 DEF Honest, AnswerTrue
<1> QED BY <1>3, <1>5, <1>6, <1>7 DEF Honest

\* A waiter that is told of f, which has just settled, stays honest: it adds f
\* to what it has seen, and wakes its client just when that is enough.
LEMMA ToldOfFuture ==
  ASSUME FutureAssumption, FutureTypeOK, RaisedWhenFinished,
         NEW r \in CallRecords, Honest(r),
         NEW f \in Futures, NEW s \in Settled, Moves(f, s), Installed(r, f),
         NEW how \in {"result", "exception", "cancelled"}, raised'[f] = (how = "exception")
  PROVE  /\ AddTo(r, f, how) \in CallRecords
         /\ \A g \in Futures : Installed(AddTo(r, f, how), g) <=> Installed(r, g)
         /\ AddTo(r, f, how).pc = r.pc
         /\ Honest(AddTo(r, f, how))'
<1> DEFINE a == AddTo(r, f, how)
<1>1. /\ \A g \in Futures \ {f} : state'[g] = state[g] /\ raised'[g] = raised[g]
      /\ state'[f] = s /\ state[f] \notin Settled
      /\ \A g \in Futures : raised[g] => state[g] \in Settled
  BY DEF FutureTypeOK, Moves, RaisedWhenFinished, Settled
<1>2. /\ r.fs \subseteq Futures /\ r.rest \subseteq Futures
      /\ r.got \in Seq(Futures) /\ r.finished \in Seq(Futures) /\ r.left \in Int
      /\ ToSet(r.got) \subseteq Futures /\ ToSet(r.finished) \subseteq Futures
  BY DEF CallRecords, ToSet
<1>3. /\ Append(r.finished, f) \in Seq(Futures) /\ Append(r.finished, f) # <<>>
      /\ ToSet(Append(r.finished, f)) = ToSet(r.finished) \cup {f}
      /\ f \notin ToSet(r.finished) /\ f \notin ToSet(r.got)
      /\ IsInjective(Append(r.finished, f))
  <2>1. f \notin Seen(r) /\ IsInjective(r.finished)
    BY <1>1 DEF Honest, SeenIsSettled, Installed
  <2> QED BY <1>2, <2>1, AppendList DEF Seen
<1> DEFINE at == \/ r.mode \in {"FIRST_COMPLETED", "AS_COMPLETED"}
                 \/ r.mode = "FIRST_EXCEPTION" /\ how = "exception"
           left == IF at THEN r.left ELSE r.left - 1
           event == IF at THEN TRUE ELSE r.event \/ r.left = 1
<1>13. left \in Int /\ event \in BOOLEAN
  <2>1. r.event \in BOOLEAN
    BY DEF CallRecords
  <2>2. (r.event \/ r.left = 1) \in BOOLEAN
    OBVIOUS
  <2>3. event \in BOOLEAN
    BY <2>2
  <2>4. left \in Int
    BY <1>2
  <2> HIDE DEF left, event
  <2> QED BY <2>3, <2>4
<1>4. a = [r EXCEPT !.finished = Append(r.finished, f), !.left = left, !.event = event]
  BY DEF AddTo, Decrement, CallRecords
<1> HIDE DEF at, left, event
<1>5. /\ a \in CallRecords
      /\ a.pc = r.pc /\ a.mode = r.mode /\ a.fs = r.fs /\ a.rest = r.rest /\ a.got = r.got
      /\ a.late = r.late /\ a.timed = r.timed /\ a.missed = r.missed
      /\ a.finished = Append(r.finished, f) /\ a.left = left /\ a.event = event
  BY <1>2, <1>3, <1>4, <1>13 DEF CallRecords
<1> HIDE DEF a
<1>6. \A g \in Futures : Installed(a, g) <=> Installed(r, g)
  BY <1>5 DEF Installed
<1>7. Seen(a) = Seen(r) \cup {f}
  BY <1>3, <1>5 DEF Seen
<1>8. SeenIsSettled(a)'
  BY <1>1, <1>2, <1>3, <1>5, <1>7 DEF Honest, SeenIsSettled, Installed
<1>9. ASSUME r.pc = "wait" PROVE EventTrue(a)'
  <2> DEFINE open == r.fs \ Seen(r)
             open2 == r.fs \ Seen(a)
  <2>1. /\ r.mode \in Modes /\ (r.event <=> Sufficient(r, Seen(r))) /\ f \in r.fs
        /\ f \notin Seen(r) /\ \A g \in Seen(r) : g \in Futures \ {f}
        /\ r.mode # "FIRST_COMPLETED" /\ ~r.event => r.left = Cardinality(open)
    BY <1>1, <1>2, <1>9 DEF Honest, EventTrue, SeenIsSettled, Installed
  <2>2. f \in open /\ open2 = open \ {f}
    BY <1>7, <2>1
  <2>3. IsFiniteSet(open)
    BY <1>2, FS_Subset DEF FutureAssumption
  <2>4. /\ Cardinality(open) \in Nat /\ Cardinality(open2) = Cardinality(open) - 1
        /\ Cardinality(open2) = 0 <=> open2 = {}
    <3>1. IsFiniteSet(open \ {f}) /\ Cardinality(open \ {f}) = Cardinality(open) - 1
      BY <2>2, <2>3, FS_RemoveElement
    <3>2. Cardinality(open) \in Nat
      BY <2>3, FS_CardinalityType
    <3> HIDE DEF open, open2
    <3> QED BY <2>2, <3>1, <3>2, FS_EmptySet
  <2>5. /\ r.fs \subseteq Seen(a) <=> open2 = {}
        /\ ~(r.fs \subseteq Seen(r))
    BY <2>2
  <2>6. /\ Sufficient(r, Seen(r)) <=>
             /\ r.mode # "ALL_COMPLETED"
             /\ r.mode = "FIRST_COMPLETED" => Seen(r) # {}
             /\ r.mode = "FIRST_EXCEPTION" => \E g \in Seen(r) : raised[g]
        /\ Sufficient(a, Seen(a))' <=>
             /\ r.mode = "ALL_COMPLETED" => open2 = {}
             /\ r.mode = "FIRST_EXCEPTION" => open2 = {} \/ \E g \in Seen(a) : raised'[g]
    <3>1. Sufficient(a, Seen(a))' <=>
             /\ r.mode = "ALL_COMPLETED" => r.fs \subseteq Seen(a)
             /\ r.mode = "FIRST_COMPLETED" => Seen(a) # {}
             /\ r.mode = "FIRST_EXCEPTION" => r.fs \subseteq Seen(a) \/ \E g \in Seen(a) : raised'[g]
      BY <1>5 DEF Sufficient, Seen
    <3>2. Seen(a) # {}
      BY <1>7
    <3> QED BY <2>5, <3>1, <3>2 DEF Sufficient
  <2>7. (\E g \in Seen(a) : raised'[g]) <=> (\E g \in Seen(r) : raised[g]) \/ raised'[f]
    BY <1>1, <1>7, <2>1
  <2> HIDE DEF open, open2
  <2>8. event <=> Sufficient(a, Seen(a))'
    <3>1. CASE at
      <4>1. event
        BY <3>1 DEF event
      <4>2. r.mode # "ALL_COMPLETED" /\ (r.mode = "FIRST_EXCEPTION" => raised'[f])
        BY <3>1 DEF at
      <4> QED BY <2>6, <2>7, <4>1, <4>2
    <3>2. CASE ~at
      <4>1. /\ event <=> r.event \/ r.left = 1
            /\ r.mode \in {"ALL_COMPLETED", "FIRST_EXCEPTION"}
            /\ r.mode = "FIRST_EXCEPTION" => ~raised'[f]
        <5>1. event <=> r.event \/ r.left = 1
          BY <3>2 DEF event
        <5>2. r.mode # "FIRST_COMPLETED" /\ (r.mode = "FIRST_EXCEPTION" => how # "exception")
          BY <3>2 DEF at
        <5>3. r.mode = "FIRST_EXCEPTION" => ~raised'[f]
          BY <5>2
        <5> QED BY <2>1, <5>1, <5>2, <5>3 DEF Modes
      <4>2. ~r.event => (r.left = 1 <=> open2 = {})
        BY <1>2, <2>1, <2>4, <4>1
      <4>3. CASE r.mode = "ALL_COMPLETED"
        BY <2>1, <2>6, <4>1, <4>2, <4>3
      <4>4. CASE r.mode = "FIRST_EXCEPTION"
        BY <2>1, <2>6, <2>7, <4>1, <4>2, <4>4
      <4> QED BY <4>1, <4>3, <4>4
    <3> QED BY <3>1, <3>2
  <2>9. r.mode # "FIRST_COMPLETED" /\ ~event => left = Cardinality(open2)
    BY <1>2, <2>1, <2>4 DEF Modes, at, left, event
  <2>10. Seen(a)' = Seen(a)
    BY DEF Seen
  <2> QED BY <1>5, <1>9, <2>1, <2>8, <2>9, <2>10 DEF EventTrue, open2
<1>10. EventTrue(a)'
  <2>1. r.pc = "generate" => r.mode = "AS_COMPLETED" /\ event
    BY DEF Honest, EventTrue, event, at
  <2> QED BY <1>3, <1>5, <1>9, <2>1 DEF EventTrue, Installed
<1>11. LateTrue(a)'
  <2>1. \A g \in Seen(r) : g \in Futures /\ raised'[g] = raised[g]
    BY <1>1, <1>2, <1>3 DEF Seen
  <2> QED BY <1>5, <1>7, <2>1 DEF Honest, LateTrue, Sufficient, Installed
<1>12. AnswerTrue(a)'
  BY <1>5 DEF AnswerTrue, Installed
<1> QED BY <1>5, <1>6, <1>8, <1>10, <1>11, <1>12 DEF Honest, a

\* notify_all() when f is done: who sleeps in result() stays honest.
LEMMA NotifiedOfFuture ==
  ASSUME FutureTypeOK, NEW r \in CallRecords, Honest(r),
         NEW f \in Futures, NEW s \in Done, Moves(f, s),
         s \in Settled => ~Installed(r, f)
  PROVE  /\ NotifyAll(f, r) \in CallRecords
         /\ \A g \in Futures : Installed(NotifyAll(f, r), g) <=> Installed(r, g)
         /\ Honest(NotifyAll(f, r))'
<1>1. CASE r.pc = "result" /\ f \in r.fs
  <2> DEFINE a == [r EXCEPT !.event = TRUE]
  <2>1. /\ a \in CallRecords
        /\ a.pc = "result" /\ a.fs = r.fs /\ a.mode = r.mode /\ a.late = r.late /\ a.event
    BY <1>1 DEF CallRecords
  <2>2. state'[f] \in Done
    BY DEF FutureTypeOK, Moves
  <2> HIDE DEF a
  <2>3. Honest(a)'
    BY <1>1, <2>1, <2>2 DEF Honest, SeenIsSettled, EventTrue, LateTrue, AnswerTrue
  <2>4. \A g \in Futures : Installed(a, g) <=> Installed(r, g)
    BY <1>1, <2>1 DEF Installed
  <2> QED BY <1>1, <2>1, <2>3, <2>4 DEF NotifyAll, a
<1>2. CASE ~(r.pc = "result" /\ f \in r.fs)
  <2>1. s \in States
    BY DEF Done, States
  <2> QED BY <1>2, <2>1, NotConcerned DEF NotifyAll
<1> QED BY <1>1, <1>2

\* The completion of f raises before it comes to this client: it stays honest,
\* since f is among what it has missed.
LEMMA MissedOfFuture ==
  ASSUME FutureTypeOK, NEW r \in CallRecords, Honest(r),
         NEW f \in Futures, NEW s \in Done, Moves(f, s), r.pc \notin {"idle", "return"}
  PROVE  /\ Miss(f, r) \in CallRecords /\ Miss(f, r).pc = r.pc
         /\ \A g \in Futures : Installed(Miss(f, r), g) <=> Installed(r, g)
         /\ Honest(Miss(f, r))'
<1> DEFINE a == [r EXCEPT !.missed = r.missed \cup {f}]
<1>1. /\ \A g \in Futures \ {f} : state'[g] = state[g] /\ raised'[g] = raised[g]
      /\ state'[f] \in Done /\ state[f] \notin Settled
  BY DEF FutureTypeOK, Moves
<1>2. r.fs \subseteq Futures /\ r.rest \subseteq Futures /\ r.missed \subseteq Futures
  BY DEF CallRecords
<1>3. /\ a \in CallRecords /\ a.pc = r.pc /\ a.mode = r.mode /\ a.fs = r.fs /\ a.rest = r.rest
      /\ a.got = r.got /\ a.finished = r.finished /\ a.late = r.late /\ a.timed = r.timed
      /\ a.left = r.left /\ a.event = r.event /\ a.missed = r.missed \cup {f}
  BY <1>2 DEF CallRecords
<1>4. Miss(f, r) = a
  BY DEF Miss
<1> HIDE DEF a
<1>5. Seen(a) = Seen(r) /\ Seen(a)' = Seen(a)
  BY <1>3 DEF Seen
<1>6. r.pc # "result" => \A g \in Seen(r) : g \in Futures \ {f} /\ state[g] \in Settled
  BY <1>1, <1>2 DEF Honest, SeenIsSettled, CallRecords
<1>7. SeenIsSettled(a)'
  BY <1>1, <1>2, <1>3, <1>5, <1>6 DEF Honest, SeenIsSettled
<1>8. r.pc # "result" => (Sufficient(a, Seen(a))' <=> Sufficient(r, Seen(r)))
  BY <1>1, <1>3, <1>5, <1>6 DEF Sufficient
<1>9. EventTrue(a)'
  BY <1>1, <1>2, <1>3, <1>5, <1>8 DEF Honest, EventTrue
<1>10. LateTrue(a)'
  BY <1>3, <1>5, <1>8 DEF Honest, LateTrue
<1>11. AnswerTrue(a)'
  BY <1>3 DEF AnswerTrue
<1>12. \A g \in Futures : Installed(a, g) <=> Installed(r, g)
  BY <1>3 DEF Installed
<1> QED BY <1>3, <1>4, <1>7, <1>9, <1>10, <1>11, <1>12 DEF Honest

\* notify_all() raises: who sleeps in result() misses f.
LEMMA PassedOver ==
  ASSUME FutureTypeOK, NEW r \in CallRecords, Honest(r),
         NEW f \in Futures, NEW s \in Done, Moves(f, s),
         s \in Settled => ~Installed(r, f)
  PROVE  /\ PassOver(f, r) \in CallRecords
         /\ \A g \in Futures : Installed(PassOver(f, r), g) <=> Installed(r, g)
         /\ Honest(PassOver(f, r))'
<1>1. CASE r.pc = "result" /\ f \in r.fs
  BY <1>1, MissedOfFuture DEF PassOver
<1>2. CASE ~(r.pc = "result" /\ f \in r.fs)
  <2>1. s \in States
    BY DEF Done, States
  <2> QED BY <1>2, <2>1, NotConcerned DEF PassOver
<1> QED BY <1>1, <1>2

-----------------------------------------------------------------------------
(* Callbacks.                                                              *)

CallbackFacts == CallbacksOnce /\ CallbacksListed

\* No future gets done: nothing changes for the callbacks.
LEMMA CallbacksStay ==
  ASSUME CallbackFacts, UNCHANGED <<callbacks, called, todo, skipped>>,
         \A g \in Futures : state'[g] \in Done <=> state[g] \in Done
  PROVE  CallbackFacts'
BY DEF CallbackFacts, CallbacksOnce, CallbacksListed

\* A future gets done and the callbacks are skipped.
LEMMA CallbacksSkipped ==
  ASSUME CallbackFacts, UNCHANGED <<callbacks, called, todo>>, NEW f \in Futures,
         state[f] \notin Done, state'[f] \in Done, skipped' = skipped \cup {f},
         \A g \in Futures \ {f} : state'[g] \in Done <=> state[g] \in Done
  PROVE  CallbackFacts'
<1>1. CallbacksListed'
  BY DEF CallbackFacts, CallbacksListed
<1>2. CallbacksOnce'
  BY DEF CallbackFacts, CallbacksOnce
<1> QED BY <1>1, <1>2 DEF CallbackFacts

\* A future gets done: thread a is to call what is listed.
LEMMA CallbacksTaken ==
  ASSUME FutureTypeOK, CallbackFacts, UNCHANGED <<callbacks, called, skipped>>,
         NEW a \in Actors, NEW f \in Futures, todo[a] = <<>>,
         state[f] \notin Done, state'[f] \in Done,
         \A g \in Futures \ {f} : state'[g] \in Done <=> state[g] \in Done,
         todo' = CallbacksTodo(a, f)
  PROVE  CallbackFacts'
<1>1. /\ DOMAIN todo'[a] = DOMAIN callbacks[f]
      /\ \A i \in DOMAIN callbacks[f] : todo'[a][i] = <<f, callbacks[f][i]>>
      /\ \A b \in Actors \ {a} : todo'[b] = todo[b]
  BY DEF CallbacksTodo, FutureTypeOK
<1>2. called[f] = <<>> /\ ToSet(called[f]) = {}
  BY DEF CallbackFacts, CallbacksOnce, ToSet
<1>3. \A b \in Actors : \A i \in DOMAIN todo[b] : todo[b][i][1] # f
  BY DEF CallbackFacts, CallbacksOnce
<1>4. IsInjective(callbacks[f])
  BY DEF CallbackFacts, CallbacksListed
<1>5. \A c \in ToSet(callbacks[f]) : <<f, c>> \in ToSet(todo'[a])
  BY <1>1 DEF ToSet
<1>6. \A g \in Futures \ {f}, c \in Clients, b \in Actors :
        <<g, c>> \in ToSet(todo[b]) => <<g, c>> \in ToSet(todo'[b])
  BY <1>1 DEF ToSet
<1>7. ASSUME NEW g \in Futures, NEW b \in Actors, NEW i \in DOMAIN todo'[b], todo'[b][i][1] = g
      PROVE  /\ state'[g] \in Done
             /\ todo'[b][i][2] \notin ToSet(called[g])
             /\ todo'[b][i][2] \in ToSet(callbacks[g]) \cup {b}
             /\ \A d \in Actors : \A j \in DOMAIN todo'[d] : todo'[d][j] = todo'[b][i] => b = d /\ i = j
  <2>1. CASE b = a
    <3>1. g = f /\ todo'[b][i] = <<f, callbacks[f][i]>> /\ i \in DOMAIN callbacks[f]
      BY <1>1, <1>7, <2>1
    <3>2. \A d \in Actors \ {a} : \A j \in DOMAIN todo'[d] : todo'[d][j] # todo'[b][i]
      BY <1>1, <1>3, <1>7, <3>1
    <3>3. \A j \in DOMAIN todo'[a] : todo'[a][j] = todo'[b][i] => i = j
      BY <1>1, <1>4, <3>1 DEF IsInjective
    <3>4. callbacks[f][i] \in ToSet(callbacks[f])
      BY <3>1 DEF ToSet
    <3> QED BY <1>2, <2>1, <3>1, <3>2, <3>3, <3>4
  <2>2. CASE b # a
    <3>1. todo'[b] = todo[b] /\ g # f
      BY <1>1, <1>3, <1>7, <2>2
    <3>2. \A j \in DOMAIN todo'[a] : todo'[a][j] # todo'[b][i]
      BY <1>1, <1>7, <3>1
    <3> QED BY <1>1, <1>7, <3>1, <3>2 DEF CallbackFacts, CallbacksOnce, CallbacksListed
  <2> QED BY <2>1, <2>2
<1>8. ASSUME NEW g \in Futures, state'[g] \in Done, g \notin skipped, NEW c \in ToSet(callbacks[g])
      PROVE  c \in ToSet(called[g]) \/ \E b \in Actors : <<g, c>> \in ToSet(todo'[b])
  <2>1. CASE g = f
    BY <1>5, <2>1
  <2>2. CASE g # f
    <3>1. c \in Clients
      BY DEF FutureTypeOK, ToSet
    <3> QED BY <1>6, <1>8, <2>2, <3>1 DEF CallbackFacts, CallbacksOnce
  <2> QED BY <2>1, <2>2
<1>9. \A g \in Futures : /\ state'[g] \notin Done => called[g] = <<>>
                         /\ IsInjective(called[g]) /\ IsInjective(callbacks[g])
  BY <1>2 DEF CallbackFacts, CallbacksOnce, CallbacksListed
<1> QED BY <1>7, <1>8, <1>9 DEF CallbackFacts, CallbacksOnce, CallbacksListed

LEMMA CallbackAdded ==
  ASSUME FutureTypeOK, CallbackFacts,
         NEW c \in Clients, NEW f \in Futures, AddDoneCallback(c, f)
  PROVE  CallbackFacts'
<1>1. /\ todo[c] = <<>> /\ c \in Actors
      /\ c \notin ToSet(callbacks[f]) /\ c \notin ToSet(called[f])
      /\ called' = called /\ state' = state /\ skipped' = skipped
  BY DEF AddDoneCallback, MayCall, Free, Actors
<1>2. CASE state[f] \notin Done
  <2>1. todo' = todo /\ callbacks' = [callbacks EXCEPT ![f] = Append(@, c)]
    BY <1>2 DEF AddDoneCallback
  <2>2. /\ \A g \in Futures \ {f} : callbacks'[g] = callbacks[g]
        /\ callbacks'[f] = Append(callbacks[f], c)
        /\ callbacks[f] \in Seq(Clients)
    BY <2>1 DEF FutureTypeOK
  <2>3. /\ ToSet(callbacks'[f]) = ToSet(callbacks[f]) \cup {c}
        /\ IsInjective(callbacks'[f])
    BY <1>1, <2>2, AppendList DEF CallbackFacts, CallbacksListed
  <2>4. CallbacksOnce'
    BY <1>1, <1>2, <2>1, <2>2 DEF CallbackFacts, CallbacksOnce
  <2>5. CallbacksListed'
    BY <1>1, <2>1, <2>2, <2>3 DEF CallbackFacts, CallbacksListed
  <2> QED BY <2>4, <2>5 DEF CallbackFacts
<1>3. CASE state[f] \in Done
  <2>1. callbacks' = callbacks /\ todo' = [todo EXCEPT ![c] = << <<f, c>> >>]
    BY <1>3 DEF AddDoneCallback
  <2>2. /\ DOMAIN todo'[c] = {1} /\ todo'[c][1] = <<f, c>>
        /\ \A b \in Actors \ {c} : todo'[b] = todo[b]
    <3>1. DOMAIN << <<f, c>> >> = {1}
      OBVIOUS
    <3> QED BY <1>1, <2>1, <3>1 DEF FutureTypeOK
  \* nobody else has it to call: it would be listed, or its own.
  <2>3. \A b \in Actors \ {c} : \A j \in DOMAIN todo[b] : todo[b][j] # <<f, c>>
    BY <1>1 DEF CallbackFacts, CallbacksListed
  <2>4. \A g \in Futures, d \in Clients, b \in Actors :
          <<g, d>> \in ToSet(todo[b]) => <<g, d>> \in ToSet(todo'[b])
    <3>1. ToSet(todo[c]) = {}
      BY <1>1 DEF ToSet
    <3> QED BY <2>2, <3>1
  <2>5. ASSUME NEW g \in Futures, NEW b \in Actors, NEW i \in DOMAIN todo'[b], todo'[b][i][1] = g
        PROVE  /\ state[g] \in Done
               /\ todo'[b][i][2] \notin ToSet(called[g])
               /\ todo'[b][i][2] \in ToSet(callbacks[g]) \cup {b}
               /\ \A d \in Actors : \A j \in DOMAIN todo'[d] : todo'[d][j] = todo'[b][i] => b = d /\ i = j
    <3>1. CASE b = c
      BY <1>1, <1>3, <2>2, <2>3, <2>5, <3>1
    <3>2. CASE b # c
      <4>1. todo'[b] = todo[b]
        BY <2>2, <3>2
      <4>2. todo'[b][i] # <<f, c>>
        BY <2>3, <2>5, <3>2, <4>1
      <4> QED BY <2>2, <2>5, <4>1, <4>2 DEF CallbackFacts, CallbacksOnce, CallbacksListed
    <3> QED BY <3>1, <3>2
  <2>6. ASSUME NEW g \in Futures, state[g] \in Done, g \notin skipped, NEW d \in ToSet(callbacks[g])
        PROVE  d \in ToSet(called[g]) \/ \E b \in Actors : <<g, d>> \in ToSet(todo'[b])
    <3>1. d \in Clients
      BY DEF FutureTypeOK, ToSet
    <3> QED BY <2>4, <2>6, <3>1 DEF CallbackFacts, CallbacksOnce
  <2>7. \A g \in Futures : /\ state[g] \notin Done => called[g] = <<>>
                           /\ IsInjective(called[g]) /\ IsInjective(callbacks[g])
    BY DEF CallbackFacts, CallbacksOnce, CallbacksListed
  <2>8. CallbacksOnce'
    BY <1>1, <2>1, <2>5, <2>6, <2>7 DEF CallbacksOnce
  <2>9. CallbacksListed'
    BY <1>1, <2>1, <2>5, <2>7 DEF CallbacksListed
  <2> QED BY <2>8, <2>9 DEF CallbackFacts
<1> QED BY <1>2, <1>3

LEMMA CallbackCalled ==
  ASSUME FutureTypeOK, CallbackFacts, NEW a \in Actors, Callback(a)
  PROVE  CallbackFacts'
<1> DEFINE f == todo[a][1][1]
           c == todo[a][1][2]
<1>1. /\ todo[a] \in Seq(Futures \X Clients) /\ todo[a] # <<>>
      /\ state' = state /\ callbacks' = callbacks /\ skipped' = skipped
  BY DEF FutureTypeOK, Callback
<1>2. /\ 1 \in DOMAIN todo[a] /\ Head(todo[a]) = todo[a][1] /\ todo[a][1] \in Futures \X Clients
      /\ \A i \in DOMAIN Tail(todo[a]) :
           i + 1 \in DOMAIN todo[a] /\ Tail(todo[a])[i] = todo[a][i + 1] /\ i \in Nat \ {0}
      /\ \A i \in DOMAIN todo[a] :
           i # 1 => i - 1 \in DOMAIN Tail(todo[a]) /\ Tail(todo[a])[i - 1] = todo[a][i]
  BY <1>1, TailList
<1>3. /\ f \in Futures /\ c \in Clients /\ todo[a][1] = <<f, c>>
      /\ called' = [called EXCEPT ![f] = Append(@, c)]
      /\ todo' = [todo EXCEPT ![a] = Tail(@)]
  BY <1>2 DEF Callback
<1> HIDE DEF f, c
<1>4. /\ \A g \in Futures \ {f} : called'[g] = called[g]
      /\ called'[f] = Append(called[f], c) /\ called[f] \in Seq(Clients)
      /\ todo'[a] = Tail(todo[a])
      /\ \A b \in Actors \ {a} : todo'[b] = todo[b]
  BY <1>3 DEF FutureTypeOK
<1>5. /\ state[f] \in Done /\ c \notin ToSet(called[f]) /\ IsInjective(called[f])
      /\ \A b \in Actors : \A j \in DOMAIN todo[b] : todo[b][j] = <<f, c>> => a = b /\ 1 = j
  BY <1>2, <1>3 DEF CallbackFacts, CallbacksOnce
<1>6. ToSet(called'[f]) = ToSet(called[f]) \cup {c} /\ IsInjective(called'[f])
  BY <1>3, <1>4, <1>5, AppendList
\* what remains to be called was to be called before, in the same order.
<1>7. ASSUME NEW b \in Actors, NEW i \in DOMAIN todo'[b]
      PROVE  \E j \in DOMAIN todo[b] :
               todo'[b][i] = todo[b][j] /\ todo[b][j] # <<f, c>> /\ j = IF b = a THEN i + 1 ELSE i
  <2>1. CASE b = a
    <3>1. i + 1 \in DOMAIN todo[b] /\ todo'[b][i] = todo[b][i + 1] /\ i + 1 # 1
      <4>1. todo'[b] = Tail(todo[a]) /\ i \in DOMAIN Tail(todo[a])
        BY <1>4, <1>7, <2>1
      <4>2. i + 1 \in DOMAIN todo[a] /\ Tail(todo[a])[i] = todo[a][i + 1] /\ i \in Nat \ {0}
        BY <1>2, <4>1
      <4> QED BY <2>1, <4>1, <4>2
    <3> QED BY <1>5, <2>1, <3>1
  <2>2. CASE b # a
    BY <1>4, <1>5, <1>7, <2>2
  <2> QED BY <2>1, <2>2
<1>8. ASSUME NEW g \in Futures, NEW b \in Actors, NEW i \in DOMAIN todo'[b], todo'[b][i][1] = g
      PROVE  /\ state[g] \in Done
             /\ todo'[b][i][2] \notin ToSet(called'[g])
             /\ todo'[b][i][2] \in ToSet(callbacks[g]) \cup {b}
             /\ \A d \in Actors : \A j \in DOMAIN todo'[d] : todo'[d][j] = todo'[b][i] => b = d /\ i = j
  <2>1. PICK k \in DOMAIN todo[b] :
          todo'[b][i] = todo[b][k] /\ todo[b][k] # <<f, c>> /\ k = IF b = a THEN i + 1 ELSE i
    BY <1>7
  <2>2. /\ todo'[b][i][2] \notin ToSet(called[g]) /\ state[g] \in Done
        /\ todo'[b][i][2] \in ToSet(callbacks[g]) \cup {b}
    BY <1>8, <2>1 DEF CallbackFacts, CallbacksOnce, CallbacksListed
  <2>3. g = f => todo'[b][i][2] # c
    <3>1. todo[b] \in Seq(Futures \X Clients) /\ todo[b][k] \in Futures \X Clients
      BY <2>1 DEF FutureTypeOK
    <3> QED BY <1>8, <2>1, <3>1
  <2>4. ASSUME NEW d \in Actors, NEW j \in DOMAIN todo'[d], todo'[d][j] = todo'[b][i]
        PROVE  b = d /\ i = j
    <3>1. PICK m \in DOMAIN todo[d] :
            todo'[d][j] = todo[d][m] /\ m = IF d = a THEN j + 1 ELSE j
      BY <1>7
    <3>2. b = d /\ k = m
      BY <1>8, <2>1, <2>4, <3>1 DEF CallbackFacts, CallbacksOnce
    <3>3. i \in Nat /\ j \in Nat
      <4>1. todo[b] \in Seq(Futures \X Clients) /\ Tail(todo[a]) \in Seq(Futures \X Clients)
        BY <1>1, TailList DEF FutureTypeOK
      <4>2. todo'[b] \in Seq(Futures \X Clients)
        BY <1>4, <4>1
      <4> QED BY <3>2, <4>2
    <3> QED BY <2>1, <3>1, <3>2, <3>3
  <2> QED BY <1>4, <1>6, <2>2, <2>3, <2>4
<1>9. ASSUME NEW g \in Futures, state[g] \in Done, g \notin skipped, NEW d \in ToSet(callbacks[g])
      PROVE  d \in ToSet(called'[g]) \/ \E b \in Actors : <<g, d>> \in ToSet(todo'[b])
  <2>1. CASE <<g, d>> = <<f, c>>
    BY <1>6, <2>1
  <2>2. CASE <<g, d>> # <<f, c>> /\ d \in ToSet(called[g])
    BY <1>4, <1>6, <2>2
  <2>3. ASSUME <<g, d>> # <<f, c>>, NEW b \in Actors, <<g, d>> \in ToSet(todo[b])
        PROVE  <<g, d>> \in ToSet(todo'[b])
    <3>1. PICK k \in DOMAIN todo[b] : todo[b][k] = <<g, d>>
      BY <2>3 DEF ToSet
    <3>2. b = a => k - 1 \in DOMAIN todo'[b] /\ todo'[b][k - 1] = <<g, d>>
      <4>1. b = a => k # 1
        BY <1>3, <2>3, <3>1
      <4>2. k # 1 /\ b = a => k - 1 \in DOMAIN Tail(todo[a]) /\ Tail(todo[a])[k - 1] = todo[a][k]
        BY <1>2, <3>1
      <4> QED BY <1>4, <3>1, <4>1, <4>2
    <3> QED BY <1>4, <3>1, <3>2 DEF ToSet
  <2> QED BY <1>9, <2>1, <2>2, <2>3 DEF CallbackFacts, CallbacksOnce
<1>10. \A g \in Futures : /\ state[g] \notin Done => called'[g] = <<>>
                          /\ IsInjective(called'[g]) /\ IsInjective(callbacks[g])
  BY <1>4, <1>5, <1>6 DEF CallbackFacts, CallbacksOnce, CallbacksListed
<1> QED BY <1>1, <1>8, <1>9, <1>10 DEF CallbackFacts, CallbacksOnce, CallbacksListed

-----------------------------------------------------------------------------
(* Clients.                                                                *)

ClientFacts ==
  /\ client \in [Clients -> CallRecords] /\ waiters \in [Futures -> SUBSET Clients]
  /\ WaitersInstalled /\ \A c \in Clients : Honest(client[c])

LEMMA HonestStays ==
  ASSUME NEW r, Honest(r), UNCHANGED <<state, raised>>
  PROVE  Honest(r)'
BY DEF Honest, SeenIsSettled, Seen, EventTrue, LateTrue, Sufficient, AnswerTrue

\* One client goes on, the futures and the other clients stay as they are.
LEMMA OneClient ==
  ASSUME ClientFacts, NEW c \in Clients, NEW r \in CallRecords,
         client' = [client EXCEPT ![c] = r], UNCHANGED <<state, raised>>, Honest(r),
         waiters' \in [Futures -> SUBSET Clients],
         \A f \in Futures : /\ c \in waiters'[f] <=> Installed(r, f)
                            /\ \A d \in Clients \ {c} : d \in waiters'[f] <=> d \in waiters[f]
  PROVE  ClientFacts'
<1>1. /\ client' \in [Clients -> CallRecords] /\ client'[c] = r
      /\ \A d \in Clients \ {c} : client'[d] = client[d]
  BY DEF ClientFacts
<1>2. \A d \in Clients : Honest(client'[d])
  BY <1>1 DEF ClientFacts
<1>3. ASSUME NEW d \in Clients PROVE Honest(client[d])'
  <2>1. PICK q : q = client'[d]
    OBVIOUS
  <2>2. Honest(q)'
    BY <1>2, <2>1, HonestStays
  <2> QED BY <2>1, <2>2 DEF Honest, SeenIsSettled, Seen, EventTrue, LateTrue, Sufficient, AnswerTrue
<1>4. WaitersInstalled'
  BY <1>1 DEF ClientFacts, WaitersInstalled, Installed
<1> QED BY <1>1, <1>3, <1>4 DEF ClientFacts

\* Neither waiters nor futures change for a client that is not installed.
LEMMA OneClientElsewhere ==
  ASSUME ClientFacts, NEW c \in Clients, NEW r \in CallRecords,
         client' = [client EXCEPT ![c] = r], UNCHANGED <<state, raised, waiters>>, Honest(r),
         \A f \in Futures : Installed(client[c], f) <=> Installed(r, f)
  PROVE  ClientFacts'
<1>1. \A f \in Futures : c \in waiters[f] <=> Installed(r, f)
  BY DEF ClientFacts, WaitersInstalled, Installed
<1> QED BY <1>1, OneClient DEF ClientFacts

LEMMA IdleIsHonest ==
  ASSUME FutureAssumption, NEW n \in 0..MaxCalls
  PROVE  /\ Idle(n) \in CallRecords /\ Honest(Idle(n))
         /\ Idle(n).pc = "idle" /\ Idle(n).calls = n /\ Idle(n).mode = "none"
         /\ ~Idle(n).event /\ ~Idle(n).late /\ Idle(n).finished = <<>>
<1>1. Idle(n) \in CallRecords
  BY DEF Idle, CallRecords, Modes
<1> QED BY <1>1 DEF Idle, Honest, SeenIsSettled, EventTrue, LateTrue, AnswerTrue

LEMMA CallIsHonest ==
  ASSUME FutureAssumption, FutureTypeOK, NEW c \in Clients, MayCall(c)
  PROVE  /\ Call(c) \in CallRecords /\ Honest(Call(c))
         /\ Call(c).pc = "idle" /\ Call(c).mode = "none"
         /\ ~Call(c).event /\ ~Call(c).late /\ Call(c).finished = <<>>
         /\ client[c].pc = "idle" /\ todo[c] = <<>>
<1>1. client[c].calls \in 0..MaxCalls /\ client[c].calls < MaxCalls
  BY DEF FutureTypeOK, CallRecords, MayCall
<1>2. client[c].calls + 1 \in 0..MaxCalls
  BY <1>1 DEF FutureAssumption
<1> QED BY <1>2, IdleIsHonest DEF Call, MayCall, Free

\* A call that changes nothing for its client.
LEMMA CallReturns ==
  ASSUME FutureAssumption, FutureTypeOK, ClientFacts, NEW c \in Clients, MayCall(c),
         client' = [client EXCEPT ![c] = Call(c)], UNCHANGED <<state, raised, waiters>>
  PROVE  ClientFacts'
<1>1. /\ Call(c) \in CallRecords /\ Honest(Call(c))
      /\ Call(c).pc = "idle" /\ client[c].pc = "idle"
  BY CallIsHonest
<1>2. \A f \in Futures : Installed(client[c], f) <=> Installed(Call(c), f)
  BY <1>1 DEF Installed
<1> QED BY <1>1, <1>2, OneClientElsewhere

LEMMA ResultStep ==
  ASSUME FutureAssumption, FutureTypeOK, ClientFacts,
         NEW c \in Clients, NEW f \in Futures, NEW timed \in BOOLEAN, Result(c, f, timed)
  PROVE  ClientFacts'
<1> DEFINE o == Call(c)
           r == [o EXCEPT !.pc = "result", !.timed = timed, !.fs = {f}]
<1>1. /\ o \in CallRecords /\ Honest(o) /\ o.pc = "idle" /\ o.mode = "none"
      /\ ~o.event /\ ~o.late /\ client[c].pc = "idle"
  BY CallIsHonest DEF Result
<1> HIDE DEF o
<1>2. /\ r \in CallRecords /\ r.pc = "result" /\ r.mode = "none" /\ r.fs = {f}
      /\ ~r.event /\ ~r.late
  BY <1>1 DEF CallRecords
<1>3. client' = [client EXCEPT ![c] = r] /\ UNCHANGED <<state, raised, waiters>> /\ state[f] \notin Done
  BY DEF Result, o
<1> HIDE DEF r
<1>4. Honest(r)
  BY <1>2, <1>3 DEF Honest, SeenIsSettled, EventTrue, LateTrue, AnswerTrue
<1>5. \A g \in Futures : Installed(client[c], g) <=> Installed(r, g)
  BY <1>1, <1>2 DEF Installed
<1> QED BY <1>2, <1>3, <1>4, <1>5, OneClientElsewhere

LEMMA GotResultStep ==
  ASSUME FutureAssumption, FutureTypeOK, ClientFacts, NEW c \in Clients, GotResult(c)
  PROVE  ClientFacts'
<1> DEFINE o == client[c]
           late == \A f \in o.fs : state[f] \notin Done
           r == [o EXCEPT !.pc = "return", !.late = late]
<1>1. /\ o \in CallRecords /\ Honest(o) /\ o.pc = "result" /\ (o.event \/ o.timed)
  BY DEF FutureTypeOK, ClientFacts, GotResult
<1>2. client' = [client EXCEPT ![c] = r] /\ UNCHANGED <<state, raised, waiters>>
  BY DEF GotResult, FutureTypeOK
<1>3. late \in BOOLEAN /\ (late => o.timed) /\ o.mode = "none"
  BY <1>1 DEF Honest, EventTrue, LateTrue
<1> HIDE DEF o, late
<1>4. /\ r \in CallRecords /\ r.pc = "return" /\ r.mode = "none" /\ r.late = late /\ r.timed = o.timed
  BY <1>1, <1>3 DEF CallRecords
<1> HIDE DEF r
<1>5. Honest(r)
  BY <1>3, <1>4 DEF Honest, SeenIsSettled, EventTrue, LateTrue, AnswerTrue
<1>6. \A g \in Futures : Installed(client[c], g) <=> Installed(r, g)
  BY <1>1, <1>4 DEF Installed, o
<1> QED BY <1>2, <1>4, <1>5, <1>6, OneClientElsewhere

\* A new waiter has seen what is settled; its client may sleep if the event it
\* does not have yet is not due, or leave if all is settled.
LEMMA InstallStep ==
  ASSUME FutureAssumption, FutureTypeOK, ClientFacts,
         NEW c \in Clients, NEW fs \in SUBSET Futures, NEW timed \in BOOLEAN,
         NEW mode \in Modes \cup {"AS_COMPLETED"}, NEW pc \in {"wait", "generate", "remove"},
         MayCall(c), CreateAndInstallWaiter(c, fs, mode, timed, pc),
         pc = "wait" => mode \in Modes /\ ~Enough(fs, mode),
         pc # "wait" => mode = "AS_COMPLETED",
         pc = "remove" => \A f \in fs : state[f] \in Settled
  PROVE  ClientFacts'
<1> DEFINE o == Call(c)
           done == {f \in fs : state[f] \in Settled}
           got == SetToSeq(done)
           left == Cardinality(fs \ done)
           r == [o EXCEPT !.pc = pc, !.mode = mode, !.timed = timed, !.fs = fs, !.rest = fs,
                          !.got = got, !.left = left]
<1>1. /\ o \in CallRecords /\ o.pc = "idle" /\ ~o.event /\ ~o.late /\ o.finished = <<>>
      /\ client[c].pc = "idle"
  BY CallIsHonest
<1>2. /\ client' = [client EXCEPT ![c] = r] /\ UNCHANGED <<state, raised>>
      /\ waiters' = [f \in Futures |-> IF f \in fs THEN waiters[f] \cup {c} ELSE waiters[f]]
  BY DEF CreateAndInstallWaiter
<1>3. done \subseteq fs /\ IsFiniteSet(done) /\ IsFiniteSet(fs \ done)
  BY FS_Subset DEF FutureAssumption
<1>4. got \in Seq(Futures) /\ IsInjective(got) /\ ToSet(got) = done
  <2>1. got \in Seq(done) /\ IsInjective(got) /\ ToSet(got) = done
    BY <1>3, SetList
  <2>2. got \in Seq(Futures)
    BY <1>3, <2>1
  <2> QED BY <2>1, <2>2
<1>5. left \in Int
  BY <1>3, FS_CardinalityType
<1>7. pc = "wait" /\ mode = "FIRST_EXCEPTION" => ~\E f \in done : raised[f]
  BY DEF Enough
<1> HIDE DEF o, got, left
<1>8. /\ r \in CallRecords /\ r.pc = pc /\ r.mode = mode /\ r.timed = timed /\ r.fs = fs /\ r.rest = fs
      /\ r.got = got /\ r.left = left /\ ~r.event /\ ~r.late /\ r.finished = <<>>
  BY <1>1, <1>4, <1>5 DEF CallRecords
<1> HIDE DEF r
<1>9. ToSet(<<>>) = {} /\ IsInjective(<<>>)
  BY DEF ToSet, IsInjective
<1>10. Seen(r) = done
  BY <1>4, <1>8, <1>9 DEF Seen
<1>11. SeenIsSettled(r)
  BY <1>4, <1>8, <1>9, <1>10 DEF SeenIsSettled
<1>12. EventTrue(r)
  <2>1. pc = "wait" => mode \in Modes /\ r.fs # {} /\ ~Sufficient(r, Seen(r))
    <3>1. Enough(fs, mode) <=> \/ done = fs
                               \/ mode = "FIRST_COMPLETED" /\ done # {}
                               \/ mode = "FIRST_EXCEPTION" /\ \E f \in done : raised[f]
      BY DEF Enough
    <3> HIDE DEF done
    <3> QED BY <1>3, <1>8, <1>10, <3>1 DEF Sufficient, Modes
  <2>2. left = Cardinality(r.fs \ Seen(r))
    BY <1>8, <1>10 DEF left
  <2> QED BY <1>8, <2>1, <2>2 DEF EventTrue
<1>13. LateTrue(r)
  <2>1. pc = "remove" => done = fs
    OBVIOUS
  <2> QED BY <1>4, <1>8, <1>10, <2>1 DEF LateTrue, Sufficient, Modes
<1>14. AnswerTrue(r)
  BY <1>8 DEF AnswerTrue
<1>15. waiters' \in [Futures -> SUBSET Clients]
  BY <1>2 DEF FutureTypeOK
<1>16. \A f \in Futures : c \notin waiters[f]
  BY <1>1 DEF ClientFacts, WaitersInstalled
<1>17. \A f \in Futures : /\ c \in waiters'[f] <=> Installed(r, f)
                          /\ \A d \in Clients \ {c} : d \in waiters'[f] <=> d \in waiters[f]
  BY <1>2, <1>8, <1>16 DEF Installed
<1> QED BY <1>2, <1>8, <1>11, <1>12, <1>13, <1>14, <1>15, <1>17, OneClient DEF Honest

LEMMA WaitStep ==
  ASSUME FutureAssumption, FutureTypeOK, ClientFacts, NEW c \in Clients,
         NEW fs \in SUBSET Futures, NEW mode \in Modes, NEW timed \in BOOLEAN, Wait(c, fs, mode, timed)
  PROVE  ClientFacts'
BY InstallStep DEF Wait

LEMMA AsCompletedStep ==
  ASSUME FutureAssumption, FutureTypeOK, ClientFacts, NEW c \in Clients,
         NEW fs \in SUBSET Futures, NEW timed \in BOOLEAN, AsCompleted(c, fs, timed)
  PROVE  ClientFacts'
<1>1. PICK pc : pc = IF \A f \in fs : state[f] \in Settled THEN "remove" ELSE "generate"
  OBVIOUS
<1>2. MayCall(c) /\ CreateAndInstallWaiter(c, fs, "AS_COMPLETED", timed, pc)
  BY <1>1 DEF AsCompleted
<1>3. pc \in {"wait", "generate", "remove"} /\ pc # "wait"
  BY <1>1
<1>4. pc = "remove" => \A f \in fs : state[f] \in Settled
  BY <1>1
<1> QED BY <1>2, <1>3, <1>4, InstallStep

LEMMA WokenStep ==
  ASSUME FutureTypeOK, ClientFacts, NEW c \in Clients, Woken(c)
  PROVE  ClientFacts'
<1> DEFINE o == client[c]
           r == [o EXCEPT !.pc = "remove", !.late = ~o.event]
<1>1. /\ o \in CallRecords /\ Honest(o) /\ o.pc = "wait" /\ (o.event \/ o.timed)
  BY DEF FutureTypeOK, ClientFacts, Woken
<1>2. client' = [client EXCEPT ![c] = r] /\ UNCHANGED <<state, raised, waiters>>
  BY DEF Woken, FutureTypeOK
<1> HIDE DEF o
<1>3. /\ r \in CallRecords /\ r.pc = "remove" /\ r.late = ~o.event /\ r.timed = o.timed
      /\ r.mode = o.mode /\ r.fs = o.fs /\ r.rest = o.rest /\ r.got = o.got /\ r.finished = o.finished
      /\ r.missed = o.missed
  BY <1>1 DEF CallRecords
<1> HIDE DEF r
<1>4. Seen(r) = Seen(o)
  BY <1>3 DEF Seen
<1>5. SeenIsSettled(r)
  BY <1>1, <1>3, <1>4 DEF Honest, SeenIsSettled
<1>6. o.mode \in Modes /\ o.fs # {} /\ (o.event <=> Sufficient(o, Seen(o)))
  BY <1>1 DEF Honest, EventTrue
<1>7. o.event => Sufficient(r, Seen(r))
  BY <1>3, <1>4, <1>6 DEF Sufficient
<1>8. EventTrue(r) /\ LateTrue(r) /\ AnswerTrue(r)
  BY <1>1, <1>3, <1>6, <1>7 DEF EventTrue, LateTrue, AnswerTrue, Modes
<1>9. \A g \in Futures : Installed(client[c], g) <=> Installed(r, g)
  BY <1>1, <1>3 DEF Installed, o
<1> QED BY <1>2, <1>3, <1>5, <1>8, <1>9, OneClientElsewhere DEF Honest

LEMMA TakeFinishedStep ==
  ASSUME FutureTypeOK, ClientFacts, NEW c \in Clients, TakeFinished(c)
  PROVE  ClientFacts'
<1> DEFINE o == client[c]
           got == o.got \o o.finished
           pc == IF o.fs \subseteq ToSet(got) THEN "remove" ELSE o.pc
           r == [o EXCEPT !.got = got, !.finished = <<>>, !.event = FALSE, !.pc = pc]
<1>1. o \in CallRecords /\ Honest(o) /\ o.pc = "generate" /\ o.mode = "AS_COMPLETED" /\ ~o.late
  BY DEF FutureTypeOK, ClientFacts, TakeFinished, Honest, EventTrue, LateTrue
<1>2. client' = [client EXCEPT ![c] = r] /\ UNCHANGED <<state, raised, waiters>>
  BY DEF TakeFinished, FutureTypeOK
<1> HIDE DEF o
<1>3. /\ o.got \in Seq(Futures) /\ o.finished \in Seq(Futures)
      /\ IsInjective(o.got) /\ IsInjective(o.finished) /\ ToSet(o.got) \cap ToSet(o.finished) = {}
  BY <1>1 DEF CallRecords, Honest, SeenIsSettled
<1>4. got \in Seq(Futures) /\ ToSet(got) = Seen(o) /\ IsInjective(got)
  BY <1>3, ConcatList DEF Seen
<1>5. /\ pc \in {"remove", "generate"}
      /\ pc = "remove" => o.fs \subseteq ToSet(got)
  BY <1>1
<1> HIDE DEF got, pc
<1>6. /\ r \in CallRecords /\ r.pc = pc /\ r.got = got /\ r.finished = <<>> /\ ~r.event
      /\ r.mode = o.mode /\ r.fs = o.fs /\ r.rest = o.rest /\ r.late = o.late
      /\ r.missed = o.missed
  <2>1. <<>> \in Seq(Futures)
    OBVIOUS
  <2> QED BY <1>1, <1>4, <1>5, <2>1 DEF CallRecords
<1> HIDE DEF r
<1>7. ToSet(<<>>) = {} /\ IsInjective(<<>>)
  BY DEF ToSet, IsInjective
<1>8. Seen(r) = Seen(o)
  BY <1>4, <1>6, <1>7 DEF Seen
<1>9. SeenIsSettled(r)
  BY <1>1, <1>4, <1>5, <1>6, <1>7, <1>8 DEF Honest, SeenIsSettled
<1>10. EventTrue(r) /\ AnswerTrue(r)
  BY <1>1, <1>5, <1>6 DEF EventTrue, AnswerTrue
<1>11. LateTrue(r)
  <2>1. Seen(o) \subseteq o.fs
    BY <1>1 DEF Honest, SeenIsSettled
  <2>2. ASSUME r.pc = "remove" PROVE ToSet(r.got) = r.fs
    <3>1. o.fs \subseteq Seen(o)
      BY <1>4, <1>5, <1>6, <2>2
    <3>2. o.fs = Seen(o)
      BY <2>1, <3>1
    <3> QED BY <1>4, <1>6, <3>2
  <2>3. /\ r.pc \in {"remove", "generate"} /\ r.mode = "AS_COMPLETED" /\ ~r.late
        /\ Sufficient(r, Seen(r))
    BY <1>1, <1>5, <1>6 DEF Sufficient
  <2> QED BY <2>2, <2>3 DEF LateTrue
<1>12. \A g \in Futures : Installed(client[c], g) <=> Installed(r, g)
  BY <1>1, <1>5, <1>6 DEF Installed, o
<1> QED BY <1>2, <1>6, <1>9, <1>10, <1>11, <1>12, OneClientElsewhere DEF Honest

LEMMA GiveUpStep ==
  ASSUME FutureTypeOK, ClientFacts, NEW c \in Clients, GiveUp(c)
  PROVE  ClientFacts'
<1> DEFINE o == client[c]
           r == [o EXCEPT !.pc = "remove", !.late = TRUE]
<1>1. o \in CallRecords /\ Honest(o) /\ o.pc = "generate" /\ o.timed /\ o.mode = "AS_COMPLETED"
  BY DEF FutureTypeOK, ClientFacts, GiveUp, Honest, EventTrue
<1>2. client' = [client EXCEPT ![c] = r] /\ UNCHANGED <<state, raised, waiters>>
  BY DEF GiveUp, FutureTypeOK
<1> HIDE DEF o
<1>3. /\ r \in CallRecords /\ r.pc = "remove" /\ r.late /\ r.timed = o.timed
      /\ r.mode = o.mode /\ r.fs = o.fs /\ r.rest = o.rest /\ r.got = o.got /\ r.finished = o.finished
      /\ r.missed = o.missed
  BY <1>1 DEF CallRecords
<1> HIDE DEF r
<1>4. Honest(r)
  BY <1>1, <1>3 DEF Honest, SeenIsSettled, Seen, EventTrue, LateTrue, AnswerTrue
<1>5. \A g \in Futures : Installed(client[c], g) <=> Installed(r, g)
  BY <1>1, <1>3 DEF Installed, o
<1> QED BY <1>2, <1>3, <1>4, <1>5, OneClientElsewhere

LEMMA RemoveWaiterStep ==
  ASSUME FutureTypeOK, ClientFacts, NEW c \in Clients, RemoveWaiter(c)
  PROVE  ClientFacts'
<1> DEFINE o == client[c]
<1>1. o \in CallRecords /\ Honest(o) /\ o.pc = "remove"
  BY DEF FutureTypeOK, ClientFacts, RemoveWaiter
<1>2. PICK f \in o.rest :
        LET rest == o.rest \ {f}
            removed == [o EXCEPT !.rest = rest] IN
        /\ waiters' = [waiters EXCEPT ![f] = @ \ {c}]
        /\ client' = [client EXCEPT ![c] =
             IF rest # {} THEN removed
             ELSE [removed EXCEPT !.pc = "return", !.got = IF o.mode \in Modes THEN @ \o o.finished ELSE @]]
  BY DEF RemoveWaiter
<1> DEFINE rest == o.rest \ {f}
           removed == [o EXCEPT !.rest = rest]
           got == IF o.mode \in Modes THEN o.got \o o.finished ELSE o.got
           returned == [removed EXCEPT !.pc = "return", !.got = got]
           r == IF rest # {} THEN removed ELSE returned
<1>3. /\ o.got \in Seq(Futures) /\ o.finished \in Seq(Futures)
      /\ IsInjective(o.got) /\ IsInjective(o.finished) /\ ToSet(o.got) \cap ToSet(o.finished) = {}
      /\ o.rest \subseteq Futures /\ \A g \in Seen(o) : g \in o.fs /\ state[g] \in Settled
      /\ o.late => o.timed
  BY <1>1 DEF CallRecords, Honest, SeenIsSettled, LateTrue
<1>4. /\ got \in Seq(Futures) /\ IsInjective(got) /\ ToSet(got) \subseteq Seen(o)
      /\ o.mode \in Modes => ToSet(got) = Seen(o)
      /\ o.mode \notin Modes => got = o.got
  BY <1>3, ConcatList DEF Seen
<1>5. removed \in CallRecords /\ removed.got = o.got /\ removed.finished = o.finished
  BY <1>1 DEF CallRecords
<1>6. client' = [client EXCEPT ![c] = r]
  BY <1>2, <1>5
<1>7. waiters' = [waiters EXCEPT ![f] = @ \ {c}] /\ UNCHANGED <<state, raised>>
  BY <1>2 DEF RemoveWaiter
<1> HIDE DEF o, got
<1>8. /\ removed.pc = "remove" /\ removed.rest = rest /\ removed.fs = o.fs /\ removed.mode = o.mode
      /\ removed.late = o.late /\ removed.timed = o.timed /\ removed.missed = o.missed
  BY <1>1 DEF CallRecords
<1>9. /\ returned \in CallRecords /\ returned.pc = "return" /\ returned.got = got
      /\ returned.fs = o.fs /\ returned.mode = o.mode /\ returned.late = o.late /\ returned.timed = o.timed
  BY <1>1, <1>4 DEF CallRecords
<1> HIDE DEF removed, returned
<1>10. Honest(removed)
  BY <1>1, <1>5, <1>8 DEF Honest, SeenIsSettled, Seen, EventTrue, LateTrue, Sufficient, AnswerTrue
<1>11. Honest(returned)
  <2>1. SeenIsSettled(returned) /\ EventTrue(returned) /\ LateTrue(returned)
    BY <1>3, <1>9 DEF SeenIsSettled, EventTrue, LateTrue
  <2>2. \A g \in ToSet(got) : g \in o.fs /\ state[g] \in Settled
    BY <1>3, <1>4
  <2>3. ~o.late /\ o.mode \in Modes => Sufficient(o, ToSet(got))
    BY <1>1, <1>4 DEF Honest, LateTrue
  <2>4. ~o.late /\ o.mode = "AS_COMPLETED" => ToSet(got) = o.fs
    BY <1>1, <1>4 DEF Honest, LateTrue, Modes
  <2>5. ToSet(got) # {} => got # <<>>
    BY DEF ToSet
  <2>6. AnswerTrue(returned)
    BY <1>3, <1>4, <1>9, <2>2, <2>3, <2>4, <2>5 DEF AnswerTrue, Sufficient, Modes
  <2> QED BY <2>1, <2>6 DEF Honest
<1>12. r \in CallRecords /\ Honest(r)
  BY <1>5, <1>9, <1>10, <1>11
<1>13. waiters' \in [Futures -> SUBSET Clients]
  BY <1>7 DEF FutureTypeOK
<1>14. \A g \in Futures : Installed(r, g) <=> g \in rest
  BY <1>8, <1>9 DEF Installed
<1>15. \A g \in Futures : c \in waiters[g] <=> g \in o.rest
  BY <1>1 DEF ClientFacts, WaitersInstalled, o
<1>16. \A g \in Futures : /\ c \in waiters'[g] <=> Installed(r, g)
                          /\ \A d \in Clients \ {c} : d \in waiters'[g] <=> d \in waiters[g]
  BY <1>3, <1>7, <1>14, <1>15 DEF FutureTypeOK
<1> HIDE DEF r
<1> QED BY <1>6, <1>7, <1>12, <1>13, <1>16, OneClient

LEMMA ReturnStep ==
  ASSUME FutureAssumption, FutureTypeOK, ClientFacts, NEW c \in Clients, Return(c)
  PROVE  ClientFacts'
<1> DEFINE r == Idle(client[c].calls)
<1>1. client[c].calls \in 0..MaxCalls /\ client[c].pc = "return"
  BY DEF FutureTypeOK, CallRecords, Return
<1>2. r \in CallRecords /\ Honest(r) /\ r.pc = "idle"
  BY <1>1, IdleIsHonest
<1>3. client' = [client EXCEPT ![c] = r] /\ UNCHANGED <<state, raised, waiters>>
  BY DEF Return
<1> HIDE DEF r
<1>4. \A g \in Futures : Installed(client[c], g) <=> Installed(r, g)
  BY <1>1, <1>2 DEF Installed
<1> QED BY <1>2, <1>3, <1>4, OneClientElsewhere

\* Every client is told of something, none is installed or removed.
LEMMA EveryClient ==
  ASSUME ClientFacts, UNCHANGED waiters, client' = [c \in Clients |-> client'[c]],
         \A c \in Clients :
           \E r \in CallRecords :
             /\ client'[c] = r /\ Honest(r)'
             /\ \A f \in Futures : Installed(r, f) <=> Installed(client[c], f)
  PROVE  ClientFacts'
<1>1. client' \in [Clients -> CallRecords]
  OBVIOUS
<1>2. ASSUME NEW c \in Clients PROVE Honest(client[c])'
  <2>1. PICK r \in CallRecords : client'[c] = r /\ Honest(r)'
    OBVIOUS
  <2> QED BY <2>1 DEF Honest, SeenIsSettled, Seen, EventTrue, LateTrue, Sufficient, AnswerTrue
<1>3. WaitersInstalled'
  BY DEF ClientFacts, WaitersInstalled, Installed
<1> QED BY <1>1, <1>2, <1>3 DEF ClientFacts

LEMMA ClientsStay ==
  ASSUME ClientFacts, UNCHANGED <<state, raised, waiters, client>>
  PROVE  ClientFacts'
<1>1. ASSUME NEW c \in Clients
      PROVE  \E r \in CallRecords :
               /\ client'[c] = r /\ Honest(r)'
               /\ \A g \in Futures : Installed(r, g) <=> Installed(client[c], g)
  <2>1. PICK r \in CallRecords : r = client[c] /\ Honest(r)
    BY DEF ClientFacts
  <2> QED BY <2>1, HonestStays
<1>2. client' = [c \in Clients |-> client'[c]]
  BY DEF ClientFacts
<1> QED BY <1>1, <1>2, EveryClient

\* A future is made or begins to run: nobody waits for that.
LEMMA UnsettledStep ==
  ASSUME FutureTypeOK, ClientFacts, NEW f \in Futures, NEW s \in {"PENDING", "RUNNING"},
         state[f] \notin Done, state' = [state EXCEPT ![f] = s], UNCHANGED <<raised, waiters, client>>
  PROVE  ClientFacts'
<1>1. Moves(f, s) /\ s \in States /\ s \notin Done /\ s \notin Settled
  BY DEF Moves, Done, Settled, States
<1>2. ASSUME NEW c \in Clients
      PROVE  \E r \in CallRecords :
               /\ client'[c] = r /\ Honest(r)'
               /\ \A g \in Futures : Installed(r, g) <=> Installed(client[c], g)
  <2>1. client[c] \in CallRecords /\ Honest(client[c])
    BY DEF ClientFacts
  <2>2. PICK r \in CallRecords : r = client[c]
    BY <2>1
  <2>3. Honest(r)'
    BY <1>1, <2>1, <2>2, NotConcerned
  <2> QED BY <2>2, <2>3
<1>3. client' = [c \in Clients |-> client'[c]]
  BY DEF ClientFacts
<1> QED BY <1>2, <1>3, EveryClient

LEMMA CancelStep ==
  ASSUME FutureAssumption, FutureTypeOK, ClientFacts, NEW c \in Clients, NEW f \in Futures, Cancel(c, f)
  PROVE  ClientFacts'
<1>1. Moves(f, "CANCELLED") /\ "CANCELLED" \in Done /\ "CANCELLED" \notin Settled
  BY DEF Cancel, Moves, Done, Settled
<1>2. /\ client' = [d \in Clients |-> NotifyAll(f, IF d = c THEN Call(c) ELSE client[d])]
      /\ UNCHANGED waiters
  BY DEF Cancel
<1>3. Call(c) \in CallRecords /\ Honest(Call(c)) /\ Call(c).pc = "idle" /\ client[c].pc = "idle"
  BY CallIsHonest DEF Cancel
<1>4. ASSUME NEW d \in Clients
      PROVE  \E r \in CallRecords :
               /\ client'[d] = r /\ Honest(r)'
               /\ \A g \in Futures : Installed(r, g) <=> Installed(client[d], g)
  <2>1. PICK o : o = IF d = c THEN Call(c) ELSE client[d]
    OBVIOUS
  <2>2. o \in CallRecords /\ Honest(o)
    BY <1>3, <2>1 DEF ClientFacts
  <2>3. \A g \in Futures : Installed(o, g) <=> Installed(client[d], g)
    BY <1>3, <2>1 DEF Installed
  <2>4. PICK r : r = NotifyAll(f, o)
    OBVIOUS
  <2>5. /\ NotifyAll(f, o) \in CallRecords /\ Honest(NotifyAll(f, o))'
        /\ \A g \in Futures : Installed(NotifyAll(f, o), g) <=> Installed(o, g)
    BY <1>1, <2>2, NotifiedOfFuture
  <2>6. client'[d] = NotifyAll(f, o)
    BY <1>2, <2>1
  <2> QED BY <2>3, <2>5, <2>6
<1> QED BY <1>2, <1>4, EveryClient

LEMMA CancelRaisesStep ==
  ASSUME FutureAssumption, FutureTypeOK, ClientFacts, NEW c \in Clients, NEW f \in Futures, CancelRaises(c, f)
  PROVE  ClientFacts'
<1>1. Moves(f, "CANCELLED") /\ "CANCELLED" \in Done /\ "CANCELLED" \notin Settled
  BY DEF CancelRaises, Moves, Done, Settled
<1>2. /\ client' = [d \in Clients |-> PassOver(f, IF d = c THEN Call(c) ELSE client[d])]
      /\ UNCHANGED waiters
  BY DEF CancelRaises
<1>3. Call(c) \in CallRecords /\ Honest(Call(c)) /\ Call(c).pc = "idle" /\ client[c].pc = "idle"
  BY CallIsHonest DEF CancelRaises
<1>4. ASSUME NEW d \in Clients
      PROVE  \E r \in CallRecords :
               /\ client'[d] = r /\ Honest(r)'
               /\ \A g \in Futures : Installed(r, g) <=> Installed(client[d], g)
  <2>1. PICK o : o = IF d = c THEN Call(c) ELSE client[d]
    OBVIOUS
  <2>2. o \in CallRecords /\ Honest(o)
    BY <1>3, <2>1 DEF ClientFacts
  <2>3. \A g \in Futures : Installed(o, g) <=> Installed(client[d], g)
    BY <1>3, <2>1 DEF Installed
  <2>4. PICK r : r = PassOver(f, o)
    OBVIOUS
  <2>5. /\ PassOver(f, o) \in CallRecords /\ Honest(PassOver(f, o))'
        /\ \A g \in Futures : Installed(PassOver(f, o), g) <=> Installed(o, g)
    BY <1>1, <2>2, PassedOver
  <2>6. client'[d] = PassOver(f, o)
    BY <1>2, <2>1
  <2> QED BY <2>3, <2>5, <2>6
<1> QED BY <1>2, <1>4, EveryClient

\* Of the waiters that are installed some are told that f has settled.
LEMMA TellsWaiter ==
  ASSUME FutureAssumption, FutureTypeOK, RaisedWhenFinished, ClientFacts,
         NEW f \in Futures, NEW s \in Settled, Moves(f, s),
         NEW how \in {"result", "exception", "cancelled"}, raised'[f] = (how = "exception"),
         NEW told \in SUBSET waiters[f], NEW c \in Clients
  PROVE  \E r \in CallRecords :
         /\ r = TellSome(told, f, how)[c] /\ \A g \in Futures : Installed(r, g) <=> Installed(client[c], g)
         /\ IF Installed(client[c], f) THEN Honest(r)' /\ r.pc # "result" ELSE r = client[c]
<1>1. PICK o : o = client[c]
  OBVIOUS
<1>2. /\ o \in CallRecords /\ Honest(o) /\ s \in Done
      /\ c \in told => Installed(o, f)
      /\ TellSome(told, f, how)[c] = IF c \in told THEN AddTo(o, f, how)
                                     ELSE IF Installed(o, f) THEN Miss(f, o) ELSE o
  BY <1>1 DEF ClientFacts, WaitersInstalled, Installed, TellSome, Settled, Done
<1>3. CASE Installed(o, f)
  <2>1. o.pc \notin {"result", "idle", "return"}
    BY <1>3 DEF Installed
  <2>2. PICK r : r = TellSome(told, f, how)[c]
    OBVIOUS
  <2>3. CASE c \in told
    <3>1. r = AddTo(o, f, how)
      BY <1>2, <2>2, <2>3
    <3>2. /\ AddTo(o, f, how) \in CallRecords /\ Honest(AddTo(o, f, how))'
          /\ \A g \in Futures : Installed(AddTo(o, f, how), g) <=> Installed(o, g)
          /\ AddTo(o, f, how).pc = o.pc
      BY <1>2, <1>3, ToldOfFuture
    <3>3. PICK q \in CallRecords : q = AddTo(o, f, how)
      BY <3>2
    <3>4. Honest(q)'
      BY <3>2, <3>3
    <3>5. /\ q = TellSome(told, f, how)[c] /\ q.pc # "result"
          /\ \A g \in Futures : Installed(q, g) <=> Installed(client[c], g)
      BY <1>1, <2>1, <2>2, <3>1, <3>2, <3>3
    <3> QED BY <1>1, <1>3, <3>4, <3>5
  <2>4. CASE c \notin told
    <3>1. r = Miss(f, o)
      BY <1>2, <1>3, <2>2, <2>4
    <3>2. /\ Miss(f, o) \in CallRecords /\ Honest(Miss(f, o))'
          /\ \A g \in Futures : Installed(Miss(f, o), g) <=> Installed(o, g)
          /\ Miss(f, o).pc = o.pc
      BY <1>2, <2>1, MissedOfFuture
    <3>3. PICK q \in CallRecords : q = Miss(f, o)
      BY <3>2
    <3>4. Honest(q)'
      BY <3>2, <3>3
    <3>5. /\ q = TellSome(told, f, how)[c] /\ q.pc # "result"
          /\ \A g \in Futures : Installed(q, g) <=> Installed(client[c], g)
      BY <1>1, <2>1, <2>2, <3>1, <3>2, <3>3
    <3> QED BY <1>1, <1>3, <3>4, <3>5
  <2> QED BY <2>3, <2>4
<1>4. CASE ~Installed(o, f)
  BY <1>1, <1>2, <1>4
<1> QED BY <1>3, <1>4

LEMMA TellsAll ==
  ASSUME WaitersInstalled, NEW f \in Futures, NEW how
  PROVE  TellWaiters(f, how) = TellSome(waiters[f], f, how)
BY DEF TellWaiters, TellSome

\* set_running_or_notify_cancel() of a cancelled future, whether it raises or not.
LEMMA NotifyCancelStep ==
  ASSUME FutureAssumption, FutureTypeOK, RaisedWhenFinished, ClientFacts, NEW f \in Futures,
         state[f] = "CANCELLED", state' = [state EXCEPT ![f] = "CANCELLED_AND_NOTIFIED"],
         NEW told \in SUBSET waiters[f],
         client' = TellSome(told, f, "cancelled"), UNCHANGED <<raised, waiters>>
  PROVE  ClientFacts'
<1>1. PICK s : s = "CANCELLED_AND_NOTIFIED"
  OBVIOUS
<1>2. /\ Moves(f, s) /\ s \in Settled /\ s \in States
      /\ s \in Done /\ state[f] \in Done /\ ~raised'[f]
  BY <1>1 DEF Moves, Settled, States, Done, FutureTypeOK, RaisedWhenFinished
<1>3. raised'[f] = ("cancelled" = "exception")
  <2>1. raised'[f] \in BOOLEAN
    BY DEF FutureTypeOK
  <2> QED BY <1>2, <2>1
<1>4. ASSUME NEW c \in Clients
      PROVE  \E r \in CallRecords :
               /\ client'[c] = r /\ Honest(r)'
               /\ \A g \in Futures : Installed(r, g) <=> Installed(client[c], g)
  <2>1. PICK r \in CallRecords :
          /\ r = TellSome(told, f, "cancelled")[c]
          /\ \A g \in Futures : Installed(r, g) <=> Installed(client[c], g)
          /\ IF Installed(client[c], f) THEN Honest(r)' /\ r.pc # "result" ELSE r = client[c]
    BY <1>2, <1>3, TellsWaiter
  <2>2. CASE Installed(client[c], f)
    BY <2>1, <2>2
  <2>3. CASE ~Installed(client[c], f)
    <3>1. Honest(r) /\ ~Installed(r, f)
      BY <2>1, <2>3 DEF ClientFacts
    <3>2. Honest(r)'
      BY <1>2, <3>1, NotConcerned
    <3> QED BY <2>1, <3>2
  <2> QED BY <2>2, <2>3
<1>5. client' = [c \in Clients |-> client'[c]]
  BY DEF TellSome
<1> QED BY <1>4, <1>5, EveryClient

LEMMA FinishStep ==
  ASSUME FutureAssumption, FutureTypeOK, RaisedWhenFinished, ClientFacts,
         NEW e \in Executors, NEW f \in Futures, NEW how \in {"result", "exception"},
         state[f] = "RUNNING", Finish(e, f, how)
  PROVE  ClientFacts'
<1>1. PICK s : s = "FINISHED"
  OBVIOUS
<1>2. /\ Moves(f, s) /\ s \in Settled /\ s \in Done /\ raised'[f] = (how = "exception")
      /\ client' = [c \in Clients |-> NotifyAll(f, TellSome(waiters[f], f, how)[c])] /\ UNCHANGED waiters
  <2>1. TellWaiters(f, how) = TellSome(waiters[f], f, how)
    BY TellsAll DEF ClientFacts
  <2> QED BY <1>1, <2>1 DEF Finish, Moves, Settled, Done, FutureTypeOK
<1>3. ASSUME NEW c \in Clients
      PROVE  \E r \in CallRecords :
               /\ client'[c] = r /\ Honest(r)'
               /\ \A g \in Futures : Installed(r, g) <=> Installed(client[c], g)
  <2>1. PICK r \in CallRecords :
          /\ r = TellSome(waiters[f], f, how)[c]
          /\ \A g \in Futures : Installed(r, g) <=> Installed(client[c], g)
          /\ IF Installed(client[c], f) THEN Honest(r)' /\ r.pc # "result" ELSE r = client[c]
    BY <1>2, TellsWaiter
  <2>2. client'[c] = NotifyAll(f, r)
    BY <1>2, <2>1
  <2>3. CASE Installed(client[c], f)
    <3>1. NotifyAll(f, r) = r
      BY <2>1, <2>3 DEF NotifyAll
    <3> QED BY <2>1, <2>2, <2>3, <3>1
  <2>4. CASE ~Installed(client[c], f)
    <3>1. Honest(r) /\ ~Installed(r, f)
      BY <2>1, <2>4 DEF ClientFacts
    <3>2. /\ NotifyAll(f, r) \in CallRecords /\ Honest(NotifyAll(f, r))'
          /\ \A g \in Futures : Installed(NotifyAll(f, r), g) <=> Installed(r, g)
      BY <1>2, <3>1, NotifiedOfFuture
    <3>3. PICK q \in CallRecords : q = NotifyAll(f, r)
      BY <3>2
    <3>4. Honest(q)'
      BY <3>2, <3>3
    <3> QED BY <2>1, <2>2, <3>2, <3>3, <3>4
  <2> QED BY <2>3, <2>4
<1>4. client' = [c \in Clients |-> client'[c]]
  BY <1>2
<1> QED BY <1>2, <1>3, <1>4, EveryClient

LEMMA FinishRaisesStep ==
  ASSUME FutureAssumption, FutureTypeOK, RaisedWhenFinished, ClientFacts,
         NEW e \in Executors, NEW f \in Futures, NEW how \in {"result", "exception"},
         state[f] = "RUNNING", FinishRaises(e, f, how)
  PROVE  ClientFacts'
<1>1. PICK s : s = "FINISHED"
  OBVIOUS
<1>2. PICK told \in SUBSET waiters[f] :
        client' = [c \in Clients |-> PassOver(f, TellSome(told, f, how)[c])]
  BY DEF FinishRaises
<1>5. /\ Moves(f, s) /\ s \in Settled /\ s \in Done /\ raised'[f] = (how = "exception")
      /\ UNCHANGED waiters
  BY <1>1 DEF FinishRaises, Moves, Settled, Done, FutureTypeOK
<1>3. ASSUME NEW c \in Clients
      PROVE  \E r \in CallRecords :
               /\ client'[c] = r /\ Honest(r)'
               /\ \A g \in Futures : Installed(r, g) <=> Installed(client[c], g)
  <2>1. PICK r \in CallRecords :
          /\ r = TellSome(told, f, how)[c]
          /\ \A g \in Futures : Installed(r, g) <=> Installed(client[c], g)
          /\ IF Installed(client[c], f) THEN Honest(r)' /\ r.pc # "result" ELSE r = client[c]
    BY <1>5, TellsWaiter
  <2>2. client'[c] = PassOver(f, r)
    BY <1>2, <2>1
  <2>3. CASE Installed(client[c], f)
    <3>1. PassOver(f, r) = r
      BY <2>1, <2>3 DEF PassOver
    <3> QED BY <2>1, <2>2, <2>3, <3>1
  <2>4. CASE ~Installed(client[c], f)
    <3>1. Honest(r) /\ ~Installed(r, f)
      BY <2>1, <2>4 DEF ClientFacts
    <3>2. /\ PassOver(f, r) \in CallRecords /\ Honest(PassOver(f, r))'
          /\ \A g \in Futures : Installed(PassOver(f, r), g) <=> Installed(r, g)
      BY <1>5, <3>1, PassedOver
    <3>3. PICK q \in CallRecords : q = PassOver(f, r)
      BY <3>2
    <3>4. Honest(q)'
      BY <3>2, <3>3
    <3> QED BY <2>1, <2>2, <3>2, <3>3, <3>4
  <2> QED BY <2>3, <2>4
<1>4. client' = [c \in Clients |-> client'[c]]
  BY <1>2
<1> QED BY <1>3, <1>4, <1>5, EveryClient

-----------------------------------------------------------------------------
(* Every step preserves the invariant.                                     *)

\* What the invariant says of futures and threads.
FutureFacts ==
  /\ state \in [Futures -> States] /\ raised \in [Futures -> BOOLEAN]
  /\ callbacks \in [Futures -> Seq(Clients)] /\ called \in [Futures -> Seq(Clients)]
  /\ todo \in [Actors -> Seq(Futures \X Clients)]
  /\ skipped \subseteq Futures /\ RaisedWhenFinished /\ CallbackFacts

LEMMA InvariantParts == FutureIInv <=> FutureFacts /\ ClientFacts
BY DEF FutureIInv, FutureTypeOK, FutureFacts, CallbackFacts, ClientFacts

\* A client goes on with wait(), or makes a call that concerns no future.
LEMMA FuturesStay ==
  ASSUME FutureFacts, UNCHANGED <<state, raised, callbacks, called, todo, skipped>>
  PROVE  FutureFacts'
<1>1. CallbackFacts'
  BY CallbacksStay DEF FutureFacts
<1> QED BY <1>1 DEF FutureFacts, RaisedWhenFinished

LEMMA TodoType ==
  ASSUME FutureFacts, NEW a \in Actors, NEW f \in Futures
  PROVE  CallbacksTodo(a, f) \in [Actors -> Seq(Futures \X Clients)]
<1>1. callbacks[f] \in Seq(Clients) /\ DOMAIN callbacks[f] = 1..Len(callbacks[f]) /\ Len(callbacks[f]) \in Nat
  BY LenProperties DEF FutureFacts
<1>2. \A i \in DOMAIN callbacks[f] : callbacks[f][i] \in Clients
  BY <1>1
<1> DEFINE q == [i \in DOMAIN callbacks[f] |-> <<f, callbacks[f][i]>>]
<1>3. q \in [1..Len(callbacks[f]) -> Futures \X Clients]
  BY <1>1, <1>2
<1>4. q \in Seq(Futures \X Clients)
  BY <1>1, <1>3, SeqDef
<1> HIDE DEF q
<1>5. CallbacksTodo(a, f) = [todo EXCEPT ![a] = q]
  BY DEF CallbacksTodo, q
<1> QED BY <1>4, <1>5 DEF FutureFacts

LEMMA FuturesStep ==
  ASSUME FutureAssumption, FutureIInv, FutureNext
  PROVE  FutureFacts'
<1>1. FutureFacts /\ FutureTypeOK /\ CallbackFacts
  BY InvariantParts DEF FutureIInv, FutureFacts
<1>2. ASSUME NEW f \in Futures, Create(f) PROVE FutureFacts'
  <2>1. \A g \in Futures : state'[g] \in Done <=> state[g] \in Done
    BY <1>1, <1>2 DEF Create, FutureFacts, Done
  <2>2. CallbackFacts'
    BY <1>1, <1>2, <2>1, CallbacksStay DEF Create
  <2> QED BY <1>1, <1>2, <2>2 DEF Create, FutureFacts, RaisedWhenFinished, States
<1>3. ASSUME NEW c \in Clients, NEW f \in Futures, Cancel(c, f) PROVE FutureFacts'
  <2>1. /\ todo[c] = <<>> /\ c \in Actors /\ state[f] \notin Done /\ state'[f] \in Done
        /\ \A g \in Futures \ {f} : state'[g] \in Done <=> state[g] \in Done
        /\ todo' = CallbacksTodo(c, f) /\ UNCHANGED <<callbacks, called, skipped>>
    BY <1>1, <1>3 DEF Cancel, MayCall, Free, Actors, FutureFacts, Done
  <2>2. CallbackFacts'
    BY <1>1, <2>1, CallbacksTaken
  <2>3. todo' \in [Actors -> Seq(Futures \X Clients)]
    BY <1>1, <2>1, TodoType
  <2> QED BY <1>1, <1>3, <2>2, <2>3 DEF Cancel, FutureFacts, RaisedWhenFinished, States
<1>4. ASSUME NEW e \in Executors, NEW f \in Futures, SetRunningOrNotifyCancel(e, f) PROVE FutureFacts'
  <2>1. \A g \in Futures : state'[g] \in Done <=> state[g] \in Done
    BY <1>1, <1>4 DEF SetRunningOrNotifyCancel, FutureFacts, Done
  <2>2. CallbackFacts'
    BY <1>1, <1>4, <2>1, CallbacksStay DEF SetRunningOrNotifyCancel
  <2> QED BY <1>1, <1>4, <2>2 DEF SetRunningOrNotifyCancel, FutureFacts, RaisedWhenFinished, States
<1>5. ASSUME NEW e \in Executors, NEW f \in Futures, state[f] = "RUNNING", todo[e] = <<>>,
             NEW how \in {"result", "exception"}, Finish(e, f, how)
      PROVE  FutureFacts'
  <2>1. /\ e \in Actors /\ state[f] \notin Done /\ state'[f] \in Done
        /\ \A g \in Futures \ {f} : state'[g] \in Done <=> state[g] \in Done
        /\ todo' = CallbacksTodo(e, f) /\ UNCHANGED <<callbacks, called, skipped>>
    BY <1>1, <1>5 DEF Finish, Actors, FutureFacts, Done
  <2>2. CallbackFacts'
    BY <1>1, <1>5, <2>1, CallbacksTaken
  <2>3. todo' \in [Actors -> Seq(Futures \X Clients)]
    BY <1>1, <2>1, TodoType
  <2>4. /\ state' = [state EXCEPT ![f] = "FINISHED"]
        /\ raised' = [raised EXCEPT ![f] = (how = "exception")]
    BY <1>5 DEF Finish
  <2>5. raised' \in [Futures -> BOOLEAN]
    BY <1>1, <2>4 DEF FutureFacts
  <2>6. state' \in [Futures -> States]
    BY <1>1, <2>4 DEF FutureFacts, States
  <2>7. RaisedWhenFinished'
    BY <1>1, <2>4 DEF FutureFacts, RaisedWhenFinished
  <2> QED BY <1>1, <2>1, <2>2, <2>3, <2>5, <2>6, <2>7 DEF FutureFacts
<1>10. ASSUME NEW f \in Futures, state[f] \notin Done, UNCHANGED <<callbacks, called, todo>>,
              skipped' = skipped \cup {f}, NEW s \in Done, state' = [state EXCEPT ![f] = s],
              \/ UNCHANGED raised
              \/ s = "FINISHED" /\ \E how \in BOOLEAN : raised' = [raised EXCEPT ![f] = how]
       PROVE  FutureFacts'
  <2>1. /\ state'[f] \in Done /\ state'[f] = s /\ \A g \in Futures \ {f} : state'[g] = state[g]
        /\ state' \in [Futures -> States] /\ raised' \in [Futures -> BOOLEAN]
        /\ skipped' \subseteq Futures
    BY <1>1, <1>10 DEF FutureFacts, States, Done
  <2>2. CallbackFacts'
    BY <1>1, <1>10, <2>1, CallbacksSkipped
  <2>3. RaisedWhenFinished'
    BY <1>1, <1>10, <2>1 DEF FutureFacts, RaisedWhenFinished, Done
  <2> QED BY <1>1, <1>10, <2>1, <2>2, <2>3 DEF FutureFacts
<1>11. ASSUME NEW c \in Clients, NEW f \in Futures, CancelRaises(c, f) PROVE FutureFacts'
  BY <1>10, <1>11 DEF CancelRaises, Done
<1>12. ASSUME NEW e \in Executors, NEW f \in Futures, state[f] = "RUNNING",
              NEW how \in {"result", "exception"}, FinishRaises(e, f, how)
       PROVE  FutureFacts'
  <2>1. (how = "exception") \in BOOLEAN
    OBVIOUS
  <2> QED BY <1>10, <1>12, <2>1 DEF FinishRaises, Done
<1>13. ASSUME NEW e \in Executors, NEW f \in Futures, NotifyCancelRaises(e, f) PROVE FutureFacts'
  <2>1. \A g \in Futures : state'[g] \in Done <=> state[g] \in Done
    BY <1>1, <1>13 DEF NotifyCancelRaises, FutureFacts, Done
  <2>2. CallbackFacts'
    BY <1>1, <1>13, <2>1, CallbacksStay DEF NotifyCancelRaises
  <2> QED BY <1>1, <1>13, <2>2 DEF NotifyCancelRaises, FutureFacts, RaisedWhenFinished, States
<1>6. ASSUME NEW c \in Clients, NEW f \in Futures, AddDoneCallback(c, f) PROVE FutureFacts'
  <2>1. CallbackFacts'
    BY <1>1, <1>6, CallbackAdded
  <2>2. callbacks' \in [Futures -> Seq(Clients)]
    <3>1. Append(callbacks[f], c) \in Seq(Clients)
      BY <1>1, AppendList DEF FutureFacts
    <3> QED BY <1>1, <1>6, <3>1 DEF AddDoneCallback, FutureFacts
  <2>3. todo' \in [Actors -> Seq(Futures \X Clients)]
    <3>1. << <<f, c>> >> \in Seq(Futures \X Clients)
      OBVIOUS
    <3> QED BY <1>1, <1>6, <3>1 DEF AddDoneCallback, FutureFacts
  <2> QED BY <1>1, <1>6, <2>1, <2>2, <2>3 DEF AddDoneCallback, FutureFacts, RaisedWhenFinished
<1>7. ASSUME NEW a \in Actors, Callback(a) PROVE FutureFacts'
  <2>1. CallbackFacts'
    BY <1>1, <1>7, CallbackCalled
  <2>2. todo[a] \in Seq(Futures \X Clients) /\ todo[a] # <<>>
    BY <1>1, <1>7 DEF Callback, FutureFacts
  <2>3. Tail(todo[a]) \in Seq(Futures \X Clients) /\ Head(todo[a]) \in Futures \X Clients
    BY <2>2, TailList
  <2>4. Append(called[Head(todo[a])[1]], Head(todo[a])[2]) \in Seq(Clients)
    BY <1>1, <2>3, AppendList DEF FutureFacts
  <2> QED BY <1>1, <1>7, <2>1, <2>3, <2>4 DEF Callback, FutureFacts, RaisedWhenFinished
<1>8. ASSUME NEW c \in Clients, FutureCall(c, Calls) PROVE FutureFacts'
  <2>1. ASSUME UNCHANGED <<state, raised, callbacks, called, todo, skipped>> PROVE FutureFacts'
    BY <1>1, <2>1, FuturesStay
  <2> QED BY <1>3, <1>6, <1>8, <1>11, <2>1
        DEF FutureCall, Result, AsCompleted, Wait, CreateAndInstallWaiter
<1>9. ASSUME NEW c \in Clients, CallElsewhere(c) \/ FutureProceed(c) PROVE FutureFacts'
  <2>1. ASSUME UNCHANGED <<state, raised, callbacks, called, todo, skipped>> PROVE FutureFacts'
    BY <1>1, <2>1, FuturesStay
  <2> QED BY <1>7, <1>9, <2>1
        DEF Actors, CallElsewhere, FutureProceed, GotResult, Woken, TakeFinished, GiveUp, RemoveWaiter, Return
<1> QED BY <1>2, <1>4, <1>5, <1>7, <1>8, <1>9, <1>12, <1>13 DEF FutureNext, Actors

LEMMA ClientsStep ==
  ASSUME FutureAssumption, FutureIInv, FutureNext
  PROVE  ClientFacts'
<1>1. ClientFacts /\ FutureTypeOK /\ RaisedWhenFinished
  BY InvariantParts DEF FutureIInv
<1>2. ASSUME UNCHANGED <<state, raised, waiters, client>> PROVE ClientFacts'
  BY <1>1, <1>2, ClientsStay
<1>3. ASSUME NEW f \in Futures, Create(f) PROVE ClientFacts'
  <2>1. state[f] \notin Done
    BY <1>3 DEF Create, Done
  <2> QED BY <1>1, <1>3, <2>1, UnsettledStep DEF Create
<1>4. ASSUME NEW e \in Executors, NEW f \in Futures, SetRunningOrNotifyCancel(e, f) PROVE ClientFacts'
  <2>1. CASE state[f] = "CANCELLED"
    <3>1. TellWaiters(f, "cancelled") = TellSome(waiters[f], f, "cancelled")
      BY <1>1, TellsAll DEF ClientFacts
    <3>2. /\ state' = [state EXCEPT ![f] = "CANCELLED_AND_NOTIFIED"]
          /\ client' = TellSome(waiters[f], f, "cancelled") /\ UNCHANGED <<raised, waiters>>
      BY <1>4, <2>1, <3>1 DEF SetRunningOrNotifyCancel
    <3>3. waiters[f] \in SUBSET waiters[f]
      OBVIOUS
    <3> QED BY <1>1, <2>1, <3>2, <3>3, NotifyCancelStep
  <2>2. CASE state[f] = "PENDING"
    <3>1. state[f] \notin Done
      BY <2>2 DEF Done
    <3> QED BY <1>1, <1>4, <2>2, <3>1, UnsettledStep DEF SetRunningOrNotifyCancel
  <2> QED BY <1>4, <2>1, <2>2 DEF SetRunningOrNotifyCancel
<1>5. ASSUME NEW e \in Executors, NEW f \in Futures, state[f] = "RUNNING",
             NEW how \in {"result", "exception"}, Finish(e, f, how)
      PROVE  ClientFacts'
  BY <1>1, <1>5, FinishStep
<1>9. ASSUME NEW e \in Executors, NEW f \in Futures, state[f] = "RUNNING",
             NEW how \in {"result", "exception"}, FinishRaises(e, f, how)
      PROVE  ClientFacts'
  BY <1>1, <1>9, FinishRaisesStep
<1>10. ASSUME NEW e \in Executors, NEW f \in Futures, NotifyCancelRaises(e, f) PROVE ClientFacts'
  <2>1. PICK told \in SUBSET waiters[f] : client' = TellSome(told, f, "cancelled")
    BY <1>10 DEF NotifyCancelRaises
  <2>2. /\ state[f] = "CANCELLED" /\ state' = [state EXCEPT ![f] = "CANCELLED_AND_NOTIFIED"]
        /\ UNCHANGED <<raised, waiters>>
    BY <1>10 DEF NotifyCancelRaises
  <2> QED BY <1>1, <2>1, <2>2, NotifyCancelStep
<1>6. ASSUME NEW c \in Clients, FutureCall(c, Calls) PROVE ClientFacts'
  <2>1. ASSUME NEW f \in Futures, Cancel(c, f) PROVE ClientFacts'
    BY <1>1, <2>1, CancelStep
  <2>2. ASSUME NEW f \in Futures, AddDoneCallback(c, f) PROVE ClientFacts'
    BY <1>1, <2>2, CallReturns DEF AddDoneCallback
  <2>3. ASSUME NEW f \in Futures, NEW timed \in BOOLEAN, Result(c, f, timed) PROVE ClientFacts'
    BY <1>1, <2>3, ResultStep
  <2>4. ASSUME NEW fs \in SUBSET Futures, NEW timed \in BOOLEAN, AsCompleted(c, fs, timed)
        PROVE  ClientFacts'
    BY <1>1, <2>4, AsCompletedStep
  <2>5. ASSUME NEW fs \in SUBSET Futures, NEW mode \in Modes, NEW timed \in BOOLEAN, Wait(c, fs, mode, timed)
        PROVE  ClientFacts'
    BY <1>1, <2>5, WaitStep
  <2>6. ASSUME NEW f \in Futures, CancelRaises(c, f) PROVE ClientFacts'
    BY <1>1, <2>6, CancelRaisesStep
  <2> QED BY <1>6, <2>1, <2>2, <2>3, <2>4, <2>5, <2>6 DEF FutureCall
<1>7. ASSUME NEW c \in Clients, CallElsewhere(c) \/ FutureProceed(c) PROVE ClientFacts'
  <2>1. CASE CallElsewhere(c)
    BY <1>1, <2>1, CallReturns DEF CallElsewhere
  <2>2. CASE Callback(c)
    BY <1>2, <2>2 DEF Callback
  <2>3. CASE GotResult(c)
    BY <1>1, <2>3, GotResultStep
  <2>4. CASE Woken(c)
    BY <1>1, <2>4, WokenStep
  <2>5. CASE TakeFinished(c)
    BY <1>1, <2>5, TakeFinishedStep
  <2>6. CASE GiveUp(c)
    BY <1>1, <2>6, GiveUpStep
  <2>7. CASE RemoveWaiter(c)
    BY <1>1, <2>7, RemoveWaiterStep
  <2>8. CASE Return(c)
    BY <1>1, <2>8, ReturnStep
  <2> QED BY <1>7, <2>1, <2>2, <2>3, <2>4, <2>5, <2>6, <2>7, <2>8 DEF FutureProceed
<1>8. ASSUME NEW e \in Executors, Callback(e) PROVE ClientFacts'
  BY <1>2, <1>8 DEF Callback
<1> QED BY <1>3, <1>4, <1>5, <1>6, <1>7, <1>8, <1>9, <1>10 DEF FutureNext

LEMMA FutureInitIInv ==
  ASSUME FutureAssumption, FutureInit
  PROVE  FutureIInv
<1>1. 0 \in 0..MaxCalls
  BY DEF FutureAssumption
<1>2. Idle(0) \in CallRecords /\ Honest(Idle(0)) /\ Idle(0).pc = "idle"
  BY <1>1, IdleIsHonest
<1>3. ClientFacts
  BY <1>2 DEF FutureInit, ClientFacts, WaitersInstalled
<1>4. <<>> \in Seq(Clients) /\ <<>> \in Seq(Futures \X Clients) /\ DOMAIN <<>> = {} /\ ToSet(<<>>) = {}
  BY DEF ToSet
<1>5. FutureFacts
  BY <1>4 DEF FutureInit, FutureFacts, States, Done, RaisedWhenFinished, CallbackFacts, CallbacksOnce,
              CallbacksListed, IsInjective
<1> QED BY <1>3, <1>5, InvariantParts

LEMMA FutureNextIInv ==
  ASSUME FutureAssumption, FutureIInv, [FutureNext]_futureVars
  PROVE  FutureIInv'
<1>1. CASE FutureNext
  <2>1. FutureFacts' /\ ClientFacts'
    BY <1>1, FuturesStep, ClientsStep
  <2> QED BY <2>1 DEF FutureFacts, ClientFacts, FutureIInv, FutureTypeOK, CallbackFacts
<1>2. CASE UNCHANGED futureVars
  <2>1. FutureFacts'
    BY <1>2, InvariantParts, FuturesStay DEF futureVars
  <2>2. ClientFacts'
    BY <1>2, InvariantParts, ClientsStay DEF futureVars
  <2> QED BY <2>1, <2>2 DEF FutureFacts, ClientFacts, FutureIInv, FutureTypeOK, CallbackFacts
<1> QED BY <1>1, <1>2

-----------------------------------------------------------------------------
(* Theorems.                                                               *)

\* Whatever executors and clients do, the invariant holds between any two
\* sections under the conditions of the futures.
THEOREM FutureInvariance == FutureSpec => []FutureIInv
<1>1. FutureInit => FutureIInv
  BY FutureInitIInv, FutureAssumption
<1>2. FutureIInv /\ [FutureNext]_futureVars => FutureIInv'
  BY FutureNextIInv, FutureAssumption
<1> QED BY <1>1, <1>2, PTL DEF FutureSpec

\* add_done_callback(): each callback of a future that is done was called or is
\* going to be, once, never before; also if it was added while the future got done.
\* Not the listed ones of a future whose completion raised out of a notify_all().
THEOREM CallbacksAreCalledOnce == FutureSpec => []CallbacksOnce
<1>1. FutureIInv => CallbacksOnce
  BY DEF FutureIInv
<1> QED BY <1>1, FutureInvariance, PTL

LEMMA HonestMeansWoken ==
  ASSUME FutureIInv
  PROVE  WaiterWillWake
<1> SUFFICES ASSUME NEW c \in Clients
             PROVE  LET r == client[c]
                        settled == {f \in r.fs \ r.missed : state[f] \in Settled} IN
                    /\ r.pc = "result" /\ (\E f \in r.fs \ r.missed : state[f] \in Done) => r.event
                    /\ r.pc = "wait" /\ Sufficient(r, settled) => r.event
                    /\ r.pc = "generate" /\ settled \ ToSet(r.got) # {} => r.event
  BY DEF FutureIInv, WaiterWillWake
<1> DEFINE r == client[c]
           settled == {f \in r.fs \ r.missed : state[f] \in Settled}
<1>1. SeenIsSettled(r) /\ EventTrue(r)
  BY DEF FutureIInv, Honest
<1> HIDE DEF r
<1>2. r.pc \in {"wait", "generate"} => settled \subseteq Seen(r)
  BY <1>1 DEF SeenIsSettled
<1> HIDE DEF settled
<1>3. r.pc = "wait" /\ Sufficient(r, settled) => Sufficient(r, Seen(r))
  BY <1>2 DEF Sufficient
<1>4. r.pc = "generate" /\ settled \ ToSet(r.got) # {} => r.finished # <<>>
  BY <1>2 DEF Seen, ToSet
<1>5. /\ r.pc = "result" /\ (\E f \in r.fs \ r.missed : state[f] \in Done) => r.event
      /\ r.pc = "wait" /\ Sufficient(r, settled) => r.event
      /\ r.pc = "generate" /\ settled \ ToSet(r.got) # {} => r.event
  BY <1>1, <1>3, <1>4 DEF EventTrue
<1> QED BY <1>5 DEF r, settled

\* result(), wait() and as_completed(): who sleeps although there is what it
\* waits for has been notified, also if another client was missed.
THEOREM NoCompletionIsLost == FutureSpec => []WaiterWillWake
BY FutureInvariance, HonestMeansWoken, PTL

\* What result(), wait() and as_completed() give back is true and complete.
THEOREM AnswersAreTrue == FutureSpec => []AnswersTrue
<1>1. FutureIInv => AnswersTrue
  BY DEF FutureIInv, Honest, AnswersTrue
<1> QED BY <1>1, FutureInvariance, PTL

-----------------------------------------------------------------------------
(* Part two: the pool                                                      *)

-----------------------------------------------------------------------------
(* The work queue.                                                         *)

Items == Futures \cup {None}

LEMMA PutItemInQueue ==
  ASSUME NEW q \in Seq(Items), NEW f \in Futures, f \notin ToSet(q), None \notin Futures
  PROVE  /\ Append(q, f) \in Seq(Items)
         /\ ToSet(Append(q, f)) = ToSet(q) \cup {f}
         /\ QueuedOnce(q) => QueuedOnce(Append(q, f))
         /\ None \notin ToSet(q) => NonesLast(Append(q, f))
<1> DEFINE a == Append(q, f)
<1>1. /\ a \in Seq(Items) /\ Len(a) = Len(q) + 1 /\ Len(q) \in Nat
      /\ DOMAIN a = 1..Len(a) /\ DOMAIN q = 1..Len(q)
      /\ \A i \in 1..Len(q) : a[i] = q[i]
      /\ a[Len(q) + 1] = f
  BY AppendProperties, LenProperties DEF Items
<1>2. ToSet(a) = ToSet(q) \cup {f}
  BY AppendList DEF Items
<1> HIDE DEF a
<1>3. \A i \in DOMAIN q : q[i] \in ToSet(q)
  BY DEF ToSet
<1>4. ASSUME QueuedOnce(q) PROVE QueuedOnce(a)
  BY <1>1, <1>3, <1>4 DEF QueuedOnce
<1>5. ASSUME None \notin ToSet(q) PROVE NonesLast(a)
  BY <1>1, <1>3, <1>5 DEF NonesLast
<1> QED BY <1>1, <1>2, <1>4, <1>5 DEF a

LEMMA PutNoneInQueue ==
  ASSUME NEW q \in Seq(Items)
  PROVE  /\ Append(q, None) \in Seq(Items)
         /\ ToSet(Append(q, None)) = ToSet(q) \cup {None}
         /\ QueuedOnce(q) => QueuedOnce(Append(q, None))
         /\ NonesLast(q) => NonesLast(Append(q, None))
<1> DEFINE a == Append(q, None)
<1>1. /\ a \in Seq(Items) /\ Len(a) = Len(q) + 1 /\ Len(q) \in Nat
      /\ DOMAIN a = 1..Len(a) /\ DOMAIN q = 1..Len(q)
      /\ \A i \in 1..Len(q) : a[i] = q[i]
      /\ a[Len(q) + 1] = None
  BY AppendProperties, LenProperties DEF Items
<1>2. ToSet(a) = ToSet(q) \cup {None}
  BY AppendList DEF Items
<1> HIDE DEF a
<1>3. ASSUME QueuedOnce(q) PROVE QueuedOnce(a)
  BY <1>1, <1>3 DEF QueuedOnce
<1>4. ASSUME NonesLast(q) PROVE NonesLast(a)
  BY <1>1, <1>4 DEF NonesLast
<1> QED BY <1>1, <1>2, <1>3, <1>4 DEF a

\* weakref_cb() of every worker.
LEMMA PutNonesInQueue ==
  ASSUME NEW q \in Seq(Items), NEW k \in Nat
  PROVE  LET n == [i \in 1..k |-> None] IN
         /\ q \o n \in Seq(Items)
         /\ ToSet(q) \subseteq ToSet(q \o n) /\ ToSet(q \o n) \subseteq ToSet(q) \cup {None}
         /\ QueuedOnce(q) => QueuedOnce(q \o n)
         /\ NonesLast(q) => NonesLast(q \o n)
<1> DEFINE n == [i \in 1..k |-> None]
           a == q \o n
<1>1. n \in Seq(Items) /\ Len(n) = k /\ ToSet(n) \subseteq {None} /\ \A i \in 1..k : n[i] = None
  <2>1. n \in [1..k -> Items]
    BY DEF Items
  <2>2. n \in Seq(Items)
    BY <2>1, SeqDef
  <2>3. DOMAIN n = 1..k
    OBVIOUS
  <2>4. Len(n) = k
    BY <2>2, <2>3, LenProperties
  <2> QED BY <2>2, <2>4 DEF ToSet
<1> HIDE DEF n
<1>2. /\ a \in Seq(Items) /\ Len(a) = Len(q) + k /\ Len(q) \in Nat
      /\ DOMAIN a = 1..Len(a) /\ DOMAIN q = 1..Len(q)
      /\ \A i \in 1..Len(q) : a[i] = q[i]
      /\ \A i \in 1..Len(a) : i > Len(q) => a[i] = None
  <2>1. /\ a \in Seq(Items) /\ Len(a) = Len(q) + Len(n)
        /\ \A i \in 1..(Len(q) + Len(n)) : a[i] = IF i <= Len(q) THEN q[i] ELSE n[i - Len(q)]
    BY <1>1, ConcatProperties
  <2>2. Len(q) \in Nat /\ DOMAIN a = 1..Len(a) /\ DOMAIN q = 1..Len(q)
    BY <2>1, LenProperties
  <2>3. ASSUME NEW i \in 1..Len(a), i > Len(q) PROVE a[i] = None
    <3>1. i - Len(q) \in 1..k
      BY <1>1, <2>1, <2>2, <2>3
    <3> QED BY <1>1, <2>1, <2>2, <2>3, <3>1
  <2> QED BY <1>1, <2>1, <2>2, <2>3
<1>3. ToSet(a) = ToSet(q) \cup ToSet(n)
  BY <1>1, ConcatList
<1> HIDE DEF a
<1>4. ASSUME QueuedOnce(q) PROVE QueuedOnce(a)
  BY <1>2, <1>4 DEF QueuedOnce
<1>5. ASSUME NonesLast(q) PROVE NonesLast(a)
  BY <1>2, <1>5 DEF NonesLast
<1> QED BY <1>1, <1>2, <1>3, <1>4, <1>5 DEF a, n

LEMMA TakeFromQueue ==
  ASSUME NEW q \in Seq(Items), q # <<>>
  PROVE  /\ Head(q) \in Items /\ Tail(q) \in Seq(Items)
         /\ ToSet(q) = ToSet(Tail(q)) \cup {Head(q)}
         /\ QueuedOnce(q) => QueuedOnce(Tail(q)) /\ (Head(q) # None => Head(q) \notin ToSet(Tail(q)))
         /\ NonesLast(q) => NonesLast(Tail(q)) /\ (Head(q) = None => ToSet(Tail(q)) \subseteq {None})
<1> DEFINE h == Head(q)
           r == Tail(q)
<1>1. /\ 1 \in DOMAIN q /\ h = q[1] /\ h \in Items /\ r \in Seq(Items)
      /\ \A i \in DOMAIN r : i + 1 \in DOMAIN q /\ r[i] = q[i + 1] /\ i \in Nat \ {0}
      /\ \A i \in DOMAIN q : i # 1 => i - 1 \in DOMAIN r /\ r[i - 1] = q[i]
  BY TailList
<1> HIDE DEF h, r
<1>2. ToSet(q) = ToSet(r) \cup {h}
  <2>1. ASSUME NEW i \in DOMAIN q PROVE q[i] \in ToSet(r) \cup {h}
    BY <1>1 DEF ToSet
  <2>2. ASSUME NEW i \in DOMAIN r PROVE r[i] \in ToSet(q)
    BY <1>1 DEF ToSet
  <2>3. h \in ToSet(q)
    BY <1>1 DEF ToSet
  <2> QED BY <2>1, <2>2, <2>3 DEF ToSet
<1>3. ASSUME QueuedOnce(q)
      PROVE  QueuedOnce(r) /\ (h # None => h \notin ToSet(r))
  <2>1. QueuedOnce(r)
    <3> SUFFICES ASSUME NEW i \in DOMAIN r, NEW j \in DOMAIN r, r[i] = r[j], r[i] # None PROVE i = j
      BY DEF QueuedOnce
    <3>1. i + 1 = j + 1
      BY <1>1, <1>3 DEF QueuedOnce
    <3> QED BY <1>1, <3>1
  <2>2. ASSUME h # None, NEW i \in DOMAIN r PROVE r[i] # h
    <3>1. 1 # i + 1 /\ i + 1 \in DOMAIN q
      BY <1>1
    <3> QED BY <1>1, <1>3, <2>2, <3>1 DEF QueuedOnce
  <2> QED BY <2>1, <2>2 DEF ToSet
<1>4. ASSUME NonesLast(q)
      PROVE  NonesLast(r) /\ (h = None => ToSet(r) \subseteq {None})
  <2>1. NonesLast(r)
    BY <1>1, <1>4 DEF NonesLast
  <2>2. ASSUME h = None, NEW i \in DOMAIN r PROVE r[i] = None
    <3>1. 1 < i + 1 /\ i + 1 \in DOMAIN q
      BY <1>1
    <3> QED BY <1>1, <1>4, <2>2, <3>1 DEF NonesLast
  <2> QED BY <2>1, <2>2 DEF ToSet
<1> QED BY <1>1, <1>2, <1>3, <1>4 DEF h, r

-----------------------------------------------------------------------------
(* The pool uses futures as an executor must.                              *)

WorkerRecords ==
  [pc : {"unborn", "get", "start", "run", "check", "gone", "dead"}, job : Futures \cup {None}]

PoolTypeOK ==
  /\ program \in Programs /\ queue \in Seq(Items)
  /\ shutdown \in BOOLEAN /\ collected \in BOOLEAN
  /\ lock \in [who : Actors \cup {None}, at : {"free", "adjust"} \cup Workers]
  /\ threads \subseteq Workers
  /\ worker \in [Workers -> WorkerRecords]
  /\ joins \in [Clients -> {"no", "waiting", "done"}]
  /\ exit \in [pc : {"no", "flagged", "wake", "over"}, told : SUBSET Workers, left : Nat]

LEMMA TypeParts ==
  /\ TypeOK <=> FutureTypeOK /\ PoolTypeOK
  /\ PoolInv => PoolTypeOK
BY DEF TypeOK, PoolTypeOK, WorkerRecords, PoolInv, ShutdownMeansDone, Items

LEMMA ProgramType ==
  ASSUME ThreadPoolAssumption, PoolTypeOK, NEW f \in Futures
  PROVE  program.spawns[f] \in Futures \cup {None}
BY DEF ThreadPoolAssumption, PoolTypeOK

LEMMA JobsAreFutures ==
  ASSUME PoolInv, NEW w \in Workers, worker[w].pc \in {"start", "run"}
  PROVE  /\ Job(w) \in Futures
         /\ worker[w].pc = "run" => state[Job(w)] = "RUNNING" /\ todo[w] = <<>>
BY TypeParts DEF PoolInv, PoolTypeOK, WorkerRecords, WorkIsOnce, Job

\* Every step of the pool is a step of some executor, or none for the futures.
LEMMA StepImplements ==
  ASSUME ThreadPoolAssumption, PoolInv, Next
  PROVE  [FutureNext]_futureVars
<1>1. PoolTypeOK
  BY TypeParts
<1>2. ASSUME NEW c \in Clients, ClientCall(c) PROVE FutureNext
  <2>1. ASSUME NEW f \in Futures, ClientSubmit(c, f) PROVE Create(f)
    BY <2>1 DEF ClientSubmit, PutItem
  <2>2. ASSUME NEW wait \in BOOLEAN, Shutdown(c, wait) PROVE CallElsewhere(c)
    BY <2>2 DEF Shutdown
  <2>3. ASSUME FutureCall(c, program.calls[c]) PROVE FutureCall(c, Calls)
    BY <2>3 DEF FutureCall, Calls
  <2> QED BY <1>2, <2>1, <2>2, <2>3 DEF ClientCall, FutureNext
<1>3. ASSUME NEW c \in Clients, ClientProceed(c) PROVE FutureNext
  BY <1>3 DEF ClientProceed, FutureNext
<1>4. ASSUME NEW w \in Workers, WorkerStep(w) PROVE FutureNext \/ UNCHANGED futureVars
  <2>1. CASE Get(w)
    BY <2>1 DEF Get
  <2>2. CASE Check(w)
    BY <2>2 DEF Check
  <2>3. CASE Start(w)
    <3>1. Job(w) \in Futures /\ SetRunningOrNotifyCancel(w, Job(w))
      BY <2>3, JobsAreFutures DEF Start, At
    <3> QED BY <3>1 DEF FutureNext, Workers
  <2>4. CASE WorkerCallback(w)
    BY <2>4 DEF WorkerCallback, FutureNext, Workers
  <2>5. CASE TaskSubmit(w)
    <3>1. Job(w) \in Futures
      BY <2>5, JobsAreFutures DEF TaskSubmit, At
    <3>2. program.spawns[Job(w)] \in Futures /\ Create(program.spawns[Job(w)])
      BY <1>1, <2>5, <3>1, ProgramType DEF TaskSubmit, PutItem
    <3> QED BY <3>2 DEF FutureNext
  <2>6. ASSUME NEW how \in {"result", "exception"}, End(w, how) PROVE FutureNext
    <3>1. Job(w) \in Futures /\ state[Job(w)] = "RUNNING" /\ todo[w] = <<>>
      BY <2>6, JobsAreFutures DEF End, TaskEnds, At
    <3>2. Finish(w, Job(w), how)
      BY <2>6 DEF End
    <3> QED BY <3>1, <3>2 DEF FutureNext, Workers
  <2>7. CASE Die(w)
    <3>1. CASE At(w, "start") /\ NotifyCancelRaises(w, Job(w))
      <4>1. Job(w) \in Futures
        BY <3>1, JobsAreFutures DEF At
      <4> QED BY <3>1, <4>1 DEF FutureNext, Workers
    <3>2. ASSUME NEW how \in {"result", "exception"}, TaskEnds(w, how), FinishRaises(w, Job(w), how)
          PROVE  FutureNext
      <4>1. Job(w) \in Futures /\ state[Job(w)] = "RUNNING" /\ todo[w] = <<>>
        BY <3>2, JobsAreFutures DEF TaskEnds, At
      <4> QED BY <3>2, <4>1 DEF FutureNext, Workers
    <3> QED BY <2>7, <3>1, <3>2 DEF Die
  <2> QED BY <1>4, <2>1, <2>2, <2>3, <2>4, <2>5, <2>6, <2>7 DEF WorkerStep
<1>5. ASSUME \/ \E c \in Clients : Joined(c)
             \/ AdjustThreadCount \/ AddThread \/ Collect \/ ExitFlag \/ Exit
      PROVE  UNCHANGED futureVars
  BY <1>5 DEF Joined, AdjustThreadCount, AddThread, Collect, ExitFlag, Exit, ExitList, ExitWake, ExitJoin
<1> QED BY <1>2, <1>3, <1>4, <1>5 DEF Next

-----------------------------------------------------------------------------
(* Every step preserves the invariant.                                     *)

\* A client does something to futures, or a worker calls a callback.
LEMMA FuturesMove ==
  ASSUME PoolInv, FutureTypeOK', UNCHANGED poolVars,
         \A f \in Futures :
           /\ state'[f] = state[f] \/ (state[f] = "PENDING" /\ state'[f] = "CANCELLED")
           /\ state[f] \in States,
         \A w \in Workers : todo[w] = <<>> => todo'[w] = <<>>
  PROVE  PoolInv'
<1>1. PoolTypeOK /\ PoolTypeOK'
  BY TypeParts DEF poolVars, PoolTypeOK
<1>2. ASSUME NEW f \in Futures
      PROVE  /\ state'[f] \in Settled <=> state[f] \in Settled
             /\ f \in Born' <=> f \in Born
             /\ state[f] \in {"PENDING", "CANCELLED"} => state'[f] \in {"PENDING", "CANCELLED"}
             /\ state[f] = "RUNNING" => state'[f] = "RUNNING"
  BY DEF Settled, Born
<1>3. Born' = Born
  BY <1>2 DEF Born
<1>4. \A w \in Workers : Job(w) \in Futures \cup {None} /\ Job(w)' = Job(w)
  BY <1>1 DEF PoolTypeOK, WorkerRecords, Job, poolVars
<1>5. \A f \in ToSet(queue) : f \in Futures \cup {None}
  BY <1>1 DEF PoolTypeOK, Items, ToSet
<1>6. WorkIsOnce'
  BY <1>2, <1>4, <1>5 DEF PoolInv, WorkIsOnce, poolVars, Job
<1>7. WorkIsKept'
  <2> SUFFICES ASSUME NEW f \in Born
               PROVE  state'[f] \in Settled \/ f \in ToSet(queue') \/ \E w \in Workers : Job(w)' = f
    BY <1>3 DEF WorkIsKept
  <2>1. f \in Futures /\ queue' = queue
    BY DEF Born, poolVars
  <2> QED BY <1>2, <1>4, <2>1 DEF PoolInv, WorkIsKept
<1>8. ThreadsListed'
  BY <1>3, <1>4 DEF PoolInv, ThreadsListed, poolVars, Job
<1>9. NoneIsLast'
  BY DEF PoolInv, NoneIsLast, NoTaskSubmits, Stopping, poolVars
<1>10. NobodySubmits'
  <2>1. collected => \A f \in Born' : program.spawns[f] # None => state'[f] \in Settled
    BY <1>2, <1>3 DEF PoolInv, NobodySubmits, Born
  <2> QED BY <2>1 DEF PoolInv, NobodySubmits, NoTaskSubmits, Gone, Ended, Unlocked, poolVars
<1>11. ShutdownMeansDone'
  <2>1. AllSettled => AllSettled'
    <3>1. \A f \in Born : f \in Futures
      BY DEF Born
    <3> QED BY <1>2, <1>3, <3>1 DEF AllSettled
  <2>2. AllDied' = AllDied
    BY DEF AllDied, poolVars
  <2> QED BY <1>1, <2>1, <2>2 DEF PoolInv, ShutdownMeansDone, TypeOK, PoolTypeOK, WorkerRecords, Items, poolVars
<1> QED BY <1>6, <1>7, <1>8, <1>9, <1>10, <1>11 DEF PoolInv

\* submit(): the new future is queued.  Nobody is shutting the pool down: no None
\* is queued, or a task submits while the program exits.
LEMMA PutItemStep ==
  ASSUME FutureAssumption, ThreadPoolAssumption, FutureTypeOK', FutureTypeOK, PoolInv,
         NEW a \in Actors, NEW f \in Futures, PutItem(a, f),
         \/ a \in Clients /\ exit.pc = "no" /\ ~collected
         \/ /\ a \in Workers /\ worker[a].pc = "run" /\ program.spawns[Job(a)] # None
            /\ exit.pc # "over" /\ a \notin Clients
  PROVE  PoolInv'
<1>1. /\ PoolTypeOK /\ lock = Unlocked /\ ~shutdown /\ queue \in Seq(Items) /\ None \notin Futures
      /\ UNCHANGED <<program, shutdown, collected, threads, worker, joins, exit, todo>>
      /\ lock' = [who |-> a, at |-> "adjust"] /\ queue' = Append(queue, f)
      /\ state[f] = "unborn" /\ state' = [state EXCEPT ![f] = "PENDING"]
  BY TypeParts DEF PutItem, Create, PoolTypeOK, ThreadPoolAssumption
<1>2. /\ \A g \in Futures \ {f} : state'[g] = state[g]
      /\ state'[f] = "PENDING"
  BY <1>1 DEF FutureTypeOK
<1>3. /\ f \notin ToSet(queue)
      /\ \A w \in Workers : Job(w) # f
  BY <1>1 DEF PoolInv, WorkIsOnce
<1>4. /\ queue' \in Seq(Items) /\ ToSet(queue') = ToSet(queue) \cup {f}
      /\ QueuedOnce(queue) => QueuedOnce(queue')
      /\ None \notin ToSet(queue) => NonesLast(queue')
  BY <1>1, <1>3, PutItemInQueue
<1>5. \A w \in Workers : Job(w) \in Futures \cup {None} /\ Job(w)' = Job(w)
  BY <1>1 DEF PoolTypeOK, WorkerRecords, Job
<1>6. \A g \in ToSet(queue) : g \in Futures \cup {None}
  BY <1>1 DEF Items, ToSet
<1>7. lock'.who = a /\ lock'.at = "adjust" /\ a # None /\ "adjust" \notin Workers
  BY <1>1 DEF ThreadPoolAssumption
<1>8. PoolTypeOK'
  BY <1>1, <1>4 DEF PoolTypeOK
<1>9. WorkIsOnce'
  BY <1>1, <1>2, <1>3, <1>4, <1>5, <1>6 DEF PoolInv, WorkIsOnce, Job
<1>10. WorkIsKept'
  BY <1>1, <1>2, <1>4, <1>5 DEF PoolInv, WorkIsKept, Born, Settled, Job
<1>11. ThreadsListed'
  <2>1. {w \in Workers : worker[w].pc # "unborn"} = threads
    BY <1>1 DEF PoolInv, ThreadsListed, Unlocked, ThreadPoolAssumption
  <2>2. a \in Workers => worker[a].pc = "run" /\ program.spawns[Job(a)] # None
    BY DEF FutureAssumption, Workers
  <2> QED BY <1>1, <1>5, <1>7, <2>1, <2>2 DEF ThreadsListed, Job
<1>12. ~collected /\ (exit.pc = "no" \/ ~NoTaskSubmits)
  <2>1. CASE a \in Workers /\ worker[a].pc = "run" /\ program.spawns[Job(a)] # None
    <3>1. Job(a) \in Futures /\ state[Job(a)] = "RUNNING"
      BY <2>1, JobsAreFutures
    <3>2. ~collected
      BY <2>1, <3>1 DEF PoolInv, NobodySubmits, Born, Settled
    <3>3. ~NoTaskSubmits
      BY <2>1, <3>1 DEF NoTaskSubmits
    <3> QED BY <3>2, <3>3
  <2> QED BY <2>1
<1>13. NoneIsLast'
  <2>1. Stopping' = Stopping /\ NoTaskSubmits' = NoTaskSubmits /\ None # f
    BY <1>1 DEF Stopping, NoTaskSubmits
  <2> QED BY <1>1, <1>4, <1>12, <2>1 DEF PoolInv, NoneIsLast
<1>14. NobodySubmits'
  <2>1. NoTaskSubmits' = NoTaskSubmits
    BY <1>1 DEF NoTaskSubmits
  <2> QED BY <1>1, <1>7, <1>12, <2>1 DEF PoolInv, NobodySubmits, Gone, Ended
<1>15. ShutdownMeansDone'
  <2>1. \A c \in Clients : joins[c] # "done"
    BY <1>1 DEF PoolInv, NobodySubmits
  <2>2. exit.pc # "over"
    OBVIOUS
  <2> QED BY <1>1, <1>8, <2>1, <2>2 DEF ShutdownMeansDone, TypeOK, PoolTypeOK, WorkerRecords, Items
<1> QED BY <1>9, <1>10, <1>11, <1>13, <1>14, <1>15 DEF PoolInv

\* ShutdownMeansDone, of a step that leaves the futures alone.
LEMMA NothingUndone ==
  ASSUME PoolInv, UNCHANGED futureVars, UNCHANGED <<program, joins, exit>>, PoolTypeOK',
         \/ UNCHANGED worker
         \/ exit.pc # "over" /\ \A c \in Clients : joins[c] # "done"
  PROVE  ShutdownMeansDone'
<1>1. FutureTypeOK' /\ AllSettled' = AllSettled
  BY DEF PoolInv, ShutdownMeansDone, TypeOK, FutureTypeOK, futureVars, AllSettled, Born
<1>2. TypeOK'
  BY <1>1 DEF TypeOK, PoolTypeOK, WorkerRecords, Items
<1>3. CASE UNCHANGED worker
  <2>1. AllDied' = AllDied
    BY <1>3 DEF AllDied
  <2> QED BY <1>1, <1>2, <1>3, <2>1 DEF PoolInv, ShutdownMeansDone
<1>4. CASE exit.pc # "over" /\ \A c \in Clients : joins[c] # "done"
  BY <1>2, <1>4 DEF ShutdownMeansDone
<1> QED BY <1>3, <1>4

LEMMA UnlockedIsFree ==
  ASSUME ThreadPoolAssumption
  PROVE  /\ Unlocked.who = None /\ Unlocked.at = "free"
         /\ None \notin Workers /\ None \notin Clients /\ "free" \notin Workers
BY DEF ThreadPoolAssumption, Unlocked, Workers, Actors

LEMMA AdjustThreadCountStep ==
  ASSUME FutureAssumption, ThreadPoolAssumption, PoolInv, AdjustThreadCount
  PROVE  PoolInv'
<1>1. /\ PoolTypeOK /\ lock.at = "adjust" /\ exit.pc # "over"
      /\ UNCHANGED <<futureVars, program, queue, shutdown, collected, threads, joins, exit>>
  BY TypeParts DEF AdjustThreadCount
<1>2. ~shutdown /\ lock.who # None /\ "adjust" \notin Workers
  BY <1>1 DEF PoolInv, NobodySubmits, ThreadsListed, Unlocked, ThreadPoolAssumption
<1>3. {w \in Workers : worker[w].pc # "unborn"} = threads
  BY <1>1, <1>2 DEF PoolInv, ThreadsListed
<1>4. \A c \in Clients : joins[c] = "no"
  BY <1>1, <1>2 DEF PoolInv, NobodySubmits, PoolTypeOK
<1>5. NoTaskSubmits' = NoTaskSubmits /\ Born' = Born /\ UNCHANGED <<state, todo>>
  BY <1>1 DEF NoTaskSubmits, Born, futureVars
<1>6. CASE threads # Workers
  <2>1. PICK w \in Workers : /\ worker[w].pc = "unborn"
                             /\ worker' = [worker EXCEPT ![w].pc = "get"]
                             /\ lock' = [lock EXCEPT !.at = w]
    BY <1>6 DEF AdjustThreadCount
  <2>2. /\ worker' = [worker EXCEPT ![w] = [worker[w] EXCEPT !.pc = "get"]]
        /\ worker'[w].pc = "get" /\ worker'[w].job = worker[w].job
        /\ \A v \in Workers \ {w} : worker'[v] = worker[v]
        /\ lock'.at = w /\ lock'.who = lock.who /\ w # "free" /\ w # "adjust"
    BY <1>1, <2>1 DEF PoolTypeOK, ThreadPoolAssumption
  <2>3. \A v \in Workers : Job(v)' = Job(v)
    BY <2>2 DEF Job
  <2>4. PoolTypeOK'
    <3>1. [worker[w] EXCEPT !.pc = "get"] \in WorkerRecords
      BY <1>1 DEF PoolTypeOK, WorkerRecords
    <3>2. worker' \in [Workers -> WorkerRecords]
      BY <1>1, <2>2, <3>1 DEF PoolTypeOK
    <3>3. lock' \in [who : Actors \cup {None}, at : {"free", "adjust"} \cup Workers]
      BY <1>1, <2>1 DEF PoolTypeOK
    <3> QED BY <1>1, <3>2, <3>3 DEF PoolTypeOK
  <2>5. WorkIsOnce'
    BY <1>1, <1>5, <2>1, <2>2, <2>3 DEF PoolInv, WorkIsOnce, Job
  <2>6. WorkIsKept'
    BY <1>1, <1>5, <2>3 DEF PoolInv, WorkIsKept, Job
  <2>7. ThreadsListed'
    <3>1. {v \in Workers : worker'[v].pc # "unborn"} = threads \cup {w}
      BY <1>3, <2>1, <2>2
    <3>2. lock.who \in Workers => lock.who # w
      BY <2>1 DEF PoolInv, ThreadsListed
    <3> QED BY <1>1, <1>2, <1>5, <2>2, <2>3, <3>1, <3>2 DEF PoolInv, ThreadsListed, Job
  <2>8. NoneIsLast'
    <3>1. Stopping' = Stopping
      BY <2>1, <2>2 DEF Stopping
    <3> QED BY <1>1, <1>5, <3>1 DEF PoolInv, NoneIsLast
  <2>9. NobodySubmits'
    <3>1. Gone(threads \ exit.told) => Gone(threads \ exit.told)'
      BY <1>1, <2>1, <2>2 DEF Gone, Ended, PoolTypeOK
    <3> QED BY <1>1, <1>2, <1>5, <2>2, <3>1 DEF PoolInv, NobodySubmits
  <2>10. ShutdownMeansDone'
    BY <1>1, <1>4, <2>4, NothingUndone
  <2> QED BY <2>5, <2>6, <2>7, <2>8, <2>9, <2>10 DEF PoolInv
<1>7. CASE threads = Workers
  <2>1. UNCHANGED worker /\ lock' = Unlocked
    BY <1>7 DEF AdjustThreadCount
  <2>2. \A v \in Workers : Job(v)' = Job(v)
    BY <2>1 DEF Job
  <2>3. PoolTypeOK'
    BY <1>1, <2>1 DEF PoolTypeOK, Unlocked
  <2>4. WorkIsOnce' /\ WorkIsKept' /\ NoneIsLast'
    BY <1>1, <1>5, <2>1, <2>2 DEF PoolInv, WorkIsOnce, WorkIsKept, NoneIsLast, Job, Stopping
  <2>5. ThreadsListed'
    <3>1. \E w \in Workers : worker[w].pc # "unborn"
      BY <1>3, <1>7 DEF ThreadPoolAssumption
    <3> QED BY <1>1, <1>3, <2>1, <3>1, UnlockedIsFree DEF ThreadsListed
  <2>6. NobodySubmits'
    <3>1. None \notin Clients
      BY DEF ThreadPoolAssumption, Actors
    <3> QED BY <1>1, <1>5, <2>1, <3>1 DEF PoolInv, NobodySubmits, Gone, Ended, Unlocked
  <2>7. ShutdownMeansDone'
    BY <1>1, <1>4, <2>3, NothingUndone
  <2> QED BY <2>4, <2>5, <2>6, <2>7 DEF PoolInv
<1> QED BY <1>6, <1>7

\* Nobody is in submit() at exit if no task submits.
LEMMA NobodyIsAdded ==
  ASSUME PoolInv, NoTaskSubmits, exit.pc # "no"
  PROVE  lock.who = None
<1>1. lock.who \in Actors \cup {None} /\ lock.who \notin Clients
  BY TypeParts DEF PoolInv, NobodySubmits, PoolTypeOK
<1>2. ASSUME lock.who \in Workers PROVE FALSE
  BY <1>2, JobsAreFutures DEF PoolInv, ThreadsListed, NoTaskSubmits
<1> QED BY <1>1, <1>2 DEF Actors, Workers

LEMMA AddThreadStep ==
  ASSUME FutureAssumption, ThreadPoolAssumption, PoolInv, AddThread
  PROVE  PoolInv'
<1>1. /\ PoolTypeOK /\ lock.at \in Workers /\ exit.pc # "over" /\ lock' = Unlocked
      /\ threads' = threads \cup {lock.at}
      /\ UNCHANGED <<futureVars, program, queue, shutdown, collected, worker, joins, exit>>
  BY TypeParts DEF AddThread
<1>2. ~shutdown /\ lock.at # "free" /\ lock.at # "adjust"
  BY <1>1 DEF PoolInv, NobodySubmits, Unlocked, ThreadPoolAssumption
<1>3. {w \in Workers : worker[w].pc # "unborn"} = threads \cup {lock.at}
  BY <1>1 DEF PoolInv, ThreadsListed
<1>4. \A c \in Clients : joins[c] = "no"
  BY <1>1, <1>2 DEF PoolInv, NobodySubmits, PoolTypeOK
<1>5. /\ NoTaskSubmits' = NoTaskSubmits /\ Born' = Born /\ UNCHANGED <<state, todo>>
      /\ \A v \in Workers : Job(v)' = Job(v)
  BY <1>1 DEF NoTaskSubmits, Born, futureVars, Job
<1>6. PoolTypeOK'
  BY <1>1 DEF PoolTypeOK, Unlocked
<1>7. WorkIsOnce' /\ WorkIsKept' /\ NoneIsLast'
  BY <1>1, <1>5 DEF PoolInv, WorkIsOnce, WorkIsKept, NoneIsLast, Job, Stopping
<1>8. ThreadsListed'
  BY <1>1, <1>3, UnlockedIsFree DEF ThreadsListed
<1>9. NobodySubmits'
  <2>1. None \notin Clients
    BY DEF ThreadPoolAssumption, Actors
  \* nobody submits at exit if no task does, so no thread is being added then.
  <2>2. exit.pc \in {"wake", "over"} /\ NoTaskSubmits => FALSE
    BY <1>1, <1>2, NobodyIsAdded DEF PoolInv, ThreadsListed
  <2> QED BY <1>1, <1>2, <1>5, <2>1, <2>2 DEF PoolInv, NobodySubmits, Unlocked
<1>10. ShutdownMeansDone'
  BY <1>1, <1>4, <1>6, NothingUndone
<1> QED BY <1>7, <1>8, <1>9, <1>10 DEF PoolInv

\* One worker goes on, to a step that is not "gone" unless it was.
LEMMA OneWorker ==
  ASSUME PoolTypeOK, NEW w \in Workers, NEW r \in WorkerRecords,
         worker' = [worker EXCEPT ![w] = r]
  PROVE  /\ worker' \in [Workers -> WorkerRecords]
         /\ worker'[w] = r /\ Job(w)' = r.job
         /\ \A v \in Workers \ {w} : worker'[v] = worker[v] /\ Job(v)' = Job(v)
BY DEF PoolTypeOK, Job

LEMMA JobType ==
  ASSUME PoolTypeOK, NEW w \in Workers
  PROVE  Job(w) \in Futures \cup {None}
BY DEF PoolTypeOK, WorkerRecords, Job

LEMMA GetStep ==
  ASSUME FutureAssumption, ThreadPoolAssumption, PoolInv, NEW w \in Workers, Get(w)
  PROVE  PoolInv'
<1> DEFINE h == Head(queue)
           r == IF h = None THEN [pc |-> "check", job |-> None] ELSE [pc |-> "start", job |-> h]
<1>1. /\ PoolTypeOK /\ worker[w].pc = "get" /\ todo[w] = <<>> /\ queue # <<>> /\ exit.pc # "over"
      /\ worker' = [worker EXCEPT ![w] = r] /\ queue' = Tail(queue)
      /\ UNCHANGED <<futureVars, program, shutdown, collected, lock, threads, joins, exit>>
  BY TypeParts DEF Get, At
<1>2. queue \in Seq(Items)
  BY <1>1 DEF PoolTypeOK
<1>3. /\ h \in Items /\ queue' \in Seq(Items) /\ ToSet(queue) = ToSet(queue') \cup {h}
      /\ QueuedOnce(queue) => QueuedOnce(queue') /\ (h # None => h \notin ToSet(queue'))
      /\ NonesLast(queue) => NonesLast(queue') /\ (h = None => ToSet(queue') \subseteq {None})
  BY <1>1, <1>2, TakeFromQueue
<1>4. /\ r \in WorkerRecords /\ r.job = h /\ r.pc \in {"check", "start"}
      /\ r.pc = "check" <=> h = None
  BY <1>3 DEF Items, WorkerRecords
<1> HIDE DEF h, r
<1>5. /\ worker' \in [Workers -> WorkerRecords]
      /\ worker'[w] = r /\ Job(w)' = h
      /\ \A v \in Workers \ {w} : worker'[v] = worker[v] /\ Job(v)' = Job(v)
  BY <1>1, <1>4, OneWorker
<1>6. /\ NoTaskSubmits' = NoTaskSubmits /\ Born' = Born /\ UNCHANGED <<state, todo>>
      /\ Job(w) = None
  BY <1>1 DEF NoTaskSubmits, Born, futureVars, PoolInv, WorkIsOnce
<1>7. PoolTypeOK'
  BY <1>1, <1>3, <1>5 DEF PoolTypeOK
<1>8. WorkIsOnce'
  <2>1. \A f \in ToSet(queue') \ {None} : state[f] \in {"PENDING", "CANCELLED"}
    BY <1>3 DEF PoolInv, WorkIsOnce
  <2>2. ASSUME NEW v \in Workers
        PROVE  /\ Job(v)' # None <=> worker'[v].pc \in {"start", "run"}
               /\ worker'[v].pc = "start" => state[Job(v)'] \in {"PENDING", "CANCELLED"}
               /\ worker'[v].pc = "run" => state[Job(v)'] = "RUNNING"
               /\ worker'[v].pc # "get" => todo[v] = <<>>
               /\ Job(v)' # None =>
                    Job(v)' \notin ToSet(queue') /\ \A u \in Workers : Job(u)' = Job(v)' => u = v
    <3>1. h # None => /\ state[h] \in {"PENDING", "CANCELLED"} /\ h \notin ToSet(queue')
                      /\ \A u \in Workers : Job(u) # h
      BY <1>3 DEF PoolInv, WorkIsOnce
    <3>2. CASE v = w
      BY <1>1, <1>4, <1>5, <3>1, <3>2
    <3>3. CASE v # w
      BY <1>3, <1>5, <3>1, <3>3 DEF PoolInv, WorkIsOnce
    <3> QED BY <3>2, <3>3
  <2> QED BY <1>3, <1>6, <2>1, <2>2 DEF PoolInv, WorkIsOnce, Job
<1>9. WorkIsKept'
  <2> SUFFICES ASSUME NEW f \in Born
               PROVE  state[f] \in Settled \/ f \in ToSet(queue') \/ \E v \in Workers : Job(v)' = f
    BY <1>6 DEF WorkIsKept
  <2>1. f # None
    BY DEF Born, ThreadPoolAssumption
  <2> QED BY <1>3, <1>5, <1>6, <2>1 DEF PoolInv, WorkIsKept
<1>10. ThreadsListed'
  <2>1. {v \in Workers : worker'[v].pc # "unborn"} = {v \in Workers : worker[v].pc # "unborn"}
    BY <1>1, <1>4, <1>5
  <2>2. lock.who # w
    BY <1>1 DEF PoolInv, ThreadsListed
  <2>3. lock.who \in Workers => worker'[lock.who] = worker[lock.who] /\ Job(lock.who)' = Job(lock.who)
    BY <1>1, <1>5, <2>2 DEF Job
  <2> QED BY <1>1, <1>6, <2>1, <2>3 DEF PoolInv, ThreadsListed, Job
<1>11. NoneIsLast'
  <2>1. Stopping' = IF h = None THEN Stopping \cup {w} ELSE Stopping
    BY <1>1, <1>4, <1>5 DEF Stopping
  <2> QED BY <1>1, <1>3, <1>6, <2>1 DEF PoolInv, NoneIsLast
<1>12. NobodySubmits'
  <2>1. Gone(threads \ exit.told) => Gone(threads \ exit.told)'
    BY <1>1, <1>5 DEF Gone, Ended, PoolTypeOK
  <2> QED BY <1>1, <1>6, <2>1 DEF PoolInv, NobodySubmits
<1>13. ShutdownMeansDone'
  <2>1. \A c \in Clients : joins[c] # "done"
    BY <1>1 DEF PoolInv, ShutdownMeansDone
  <2> QED BY <1>1, <1>7, <2>1, NothingUndone
<1> QED BY <1>8, <1>9, <1>10, <1>11, <1>12, <1>13 DEF PoolInv

\* While a worker works shutdown() has not returned.
LEMMA WorkerIsJoined ==
  ASSUME PoolInv, FutureTypeOK', PoolTypeOK', UNCHANGED <<joins, exit>>,
         NEW w \in Workers, worker[w].pc \notin {"unborn", "gone", "dead"}, exit.pc # "over"
  PROVE  ShutdownMeansDone'
<1>1. \A c \in Clients : joins[c] # "done"
  BY DEF PoolInv, ShutdownMeansDone
<1> QED BY <1>1 DEF ShutdownMeansDone, TypeOK, PoolTypeOK, WorkerRecords, Items

\* A worker begins to run its future, or is done with it.
LEMMA WorkerMovesFuture ==
  ASSUME FutureAssumption, ThreadPoolAssumption, FutureTypeOK, FutureTypeOK', PoolInv,
         NEW w \in Workers, NEW r \in WorkerRecords, NEW f \in Futures, NEW s \in {"RUNNING"} \cup Settled,
         f = Job(w), exit.pc # "over", lock.who # w,
         worker[w].pc \in {"start", "run"}, worker' = [worker EXCEPT ![w] = r],
         state[f] \notin Settled, state' = [state EXCEPT ![f] = s],
         \/ s = "RUNNING" /\ r.pc = "run" /\ r.job = f /\ todo'[w] = <<>>
         \/ s \in Settled /\ r.job = None /\ (r.pc = "get" \/ (r.pc = "dead" /\ todo'[w] = <<>>)),
         \A v \in Workers \ {w} : todo'[v] = todo[v],
         UNCHANGED <<program, queue, shutdown, collected, lock, threads, joins, exit>>
  PROVE  PoolInv'
<1>1. PoolTypeOK
  BY TypeParts
<1>2. f # None
  BY DEF ThreadPoolAssumption
<1>3. /\ \A g \in Futures \ {f} : state'[g] = state[g]
      /\ state'[f] = s /\ state[f] # "unborn"
  BY <1>1, <1>2 DEF FutureTypeOK, PoolInv, WorkIsOnce
<1>4. /\ worker' \in [Workers -> WorkerRecords]
      /\ worker'[w] = r /\ Job(w)' = r.job
      /\ \A v \in Workers \ {w} : worker'[v] = worker[v] /\ Job(v)' = Job(v)
  BY <1>1, OneWorker
<1>5. f \notin ToSet(queue) /\ \A v \in Workers \ {w} : Job(v) # f
  BY <1>2 DEF PoolInv, WorkIsOnce
<1>6. \A g \in ToSet(queue) : g \in Futures \cup {None}
  BY <1>1 DEF PoolTypeOK, Items, ToSet
<1>7. NoTaskSubmits' = NoTaskSubmits /\ Born' = Born
  <2>1. \A g \in Futures : state'[g] # "unborn" <=> state[g] # "unborn"
    BY <1>3 DEF Settled
  <2> QED BY <1>1, <2>1 DEF NoTaskSubmits, Born
<1>8. PoolTypeOK'
  BY <1>1, <1>4 DEF PoolTypeOK
<1>9. WorkIsOnce'
  <2>1. \A g \in ToSet(queue) \ {None} : state'[g] \in {"PENDING", "CANCELLED"}
    BY <1>3, <1>5, <1>6 DEF PoolInv, WorkIsOnce
  <2>2. ASSUME NEW v \in Workers
        PROVE  /\ Job(v)' # None <=> worker'[v].pc \in {"start", "run"}
               /\ worker'[v].pc = "start" => state'[Job(v)'] \in {"PENDING", "CANCELLED"}
               /\ worker'[v].pc = "run" => state'[Job(v)'] = "RUNNING"
               /\ worker'[v].pc # "get" => todo'[v] = <<>>
               /\ Job(v)' # None =>
                    Job(v)' \notin ToSet(queue) /\ \A u \in Workers : Job(u)' = Job(v)' => u = v
    <3>1. CASE v = w
      BY <1>2, <1>3, <1>4, <1>5, <3>1
    <3>2. CASE v # w
      <4>1. Job(v) \in Futures \cup {None} /\ Job(v) # f /\ Job(v)' = Job(v) /\ worker'[v] = worker[v]
        BY <1>1, <1>4, <1>5, <3>2, JobType
      <4>2. Job(v) # None => state'[Job(v)] = state[Job(v)] /\ Job(w)' # Job(v)
        BY <1>2, <1>3, <1>4, <4>1
      <4>3. /\ Job(v) # None <=> worker[v].pc \in {"start", "run"}
            /\ worker[v].pc = "start" => state[Job(v)] \in {"PENDING", "CANCELLED"}
            /\ worker[v].pc = "run" => state[Job(v)] = "RUNNING"
            /\ worker[v].pc # "get" => todo[v] = <<>>
            /\ Job(v) # None => Job(v) \notin ToSet(queue) /\ \A u \in Workers : Job(u) = Job(v) => u = v
        BY DEF PoolInv, WorkIsOnce
      <4> QED BY <1>4, <4>1, <4>2, <4>3
    <3> QED BY <3>1, <3>2
  <2> QED BY <1>1, <2>1, <2>2 DEF PoolInv, WorkIsOnce, Job
<1>10. WorkIsKept'
  <2> SUFFICES ASSUME NEW g \in Born
               PROVE  state'[g] \in Settled \/ g \in ToSet(queue) \/ \E v \in Workers : Job(v)' = g
    BY <1>1, <1>7 DEF WorkIsKept
  <2>1. g \in Futures
    BY DEF Born
  <2>2. CASE g = f
    BY <1>3, <1>4, <2>2
  <2>3. CASE g # f
    <3>1. state'[g] = state[g]
      BY <1>3, <2>1, <2>3
    <3>2. \A v \in Workers : Job(v) = g => Job(v)' = g
      BY <1>4, <2>3
    <3> QED BY <3>1, <3>2 DEF PoolInv, WorkIsKept
  <2> QED BY <2>2, <2>3
<1>11. ThreadsListed'
  <2>1. {v \in Workers : worker'[v].pc # "unborn"} = {v \in Workers : worker[v].pc # "unborn"}
    BY <1>4
  <2>2. lock.who # w
    OBVIOUS
  <2>3. lock.who \in Workers => worker'[lock.who] = worker[lock.who] /\ Job(lock.who)' = Job(lock.who)
    BY <1>1, <1>4, <2>2 DEF Job
  <2> QED BY <1>1, <1>7, <2>1, <2>3 DEF PoolInv, ThreadsListed, Job
<1>12. NoneIsLast'
  <2>1. Stopping' = Stopping
    BY <1>4 DEF Stopping
  <2> QED BY <1>1, <1>7, <2>1 DEF PoolInv, NoneIsLast
<1>13. NobodySubmits'
  <2>1. Gone(threads \ exit.told) => Gone(threads \ exit.told)'
    BY <1>1, <1>4 DEF Gone, Ended, PoolTypeOK
  <2>2. \A g \in Futures : state[g] \in Settled => state'[g] \in Settled
    BY <1>3
  <2>3. collected => \A g \in Born : program.spawns[g] # None => state'[g] \in Settled
    BY <2>2 DEF PoolInv, NobodySubmits, Born
  <2> QED BY <1>1, <1>7, <2>1, <2>3 DEF PoolInv, NobodySubmits
<1>14. ShutdownMeansDone'
  BY <1>1, <1>8, WorkerIsJoined
<1> QED BY <1>9, <1>10, <1>11, <1>12, <1>13, <1>14 DEF PoolInv

LEMMA StartStep ==
  ASSUME FutureAssumption, ThreadPoolAssumption, FutureTypeOK, FutureTypeOK', PoolInv,
         NEW w \in Workers, Start(w)
  PROVE  PoolInv'
<1> DEFINE r == IF state[Job(w)] = "PENDING" THEN [worker[w] EXCEPT !.pc = "run"] ELSE [pc |-> "get", job |-> None]
<1>1. PICK f : f = Job(w)
  OBVIOUS
<1>2. /\ PoolTypeOK /\ worker[w].pc = "start" /\ exit.pc # "over"
      /\ worker' = [worker EXCEPT ![w] = r]
      /\ UNCHANGED <<program, queue, shutdown, collected, lock, threads, joins, exit, todo>>
      /\ \/ state[f] = "CANCELLED" /\ state' = [state EXCEPT ![f] = "CANCELLED_AND_NOTIFIED"]
         \/ state[f] = "PENDING" /\ state' = [state EXCEPT ![f] = "RUNNING"]
  BY <1>1, TypeParts DEF Start, At, SetRunningOrNotifyCancel
<1>3. /\ r \in WorkerRecords
      /\ state[f] = "PENDING" => r.pc = "run" /\ r.job = f
      /\ state[f] # "PENDING" => r.pc = "get" /\ r.job = None
  BY <1>1, <1>2 DEF PoolTypeOK, WorkerRecords, Job
<1> HIDE DEF r
<1>4. f \in Futures /\ todo[w] = <<>> /\ lock.who # w /\ state[f] \notin Settled
  BY <1>1, <1>2, JobsAreFutures DEF PoolInv, WorkIsOnce, ThreadsListed, Settled
<1>5. /\ "RUNNING" \in {"RUNNING"} \cup Settled
      /\ "CANCELLED_AND_NOTIFIED" \in {"RUNNING"} \cup Settled /\ "CANCELLED_AND_NOTIFIED" \in Settled
  BY DEF Settled
<1>6. CASE state[f] = "PENDING"
  BY <1>1, <1>2, <1>3, <1>4, <1>5, <1>6, WorkerMovesFuture
<1>7. CASE state[f] # "PENDING"
  BY <1>1, <1>2, <1>3, <1>4, <1>5, <1>7, WorkerMovesFuture
<1> QED BY <1>6, <1>7

LEMMA EndStep ==
  ASSUME FutureAssumption, ThreadPoolAssumption, FutureTypeOK, FutureTypeOK', PoolInv,
         NEW w \in Workers, NEW how \in {"result", "exception"}, End(w, how)
  PROVE  PoolInv'
<1>1. PICK f : f = Job(w)
  OBVIOUS
<1>2. PICK r : r = [pc |-> "get", job |-> None]
  OBVIOUS
<1>3. /\ worker[w].pc = "run" /\ exit.pc # "over" /\ lock.who # w
      /\ worker' = [worker EXCEPT ![w] = r]
      /\ UNCHANGED <<program, queue, shutdown, collected, lock, threads, joins, exit>>
      /\ state' = [state EXCEPT ![f] = "FINISHED"] /\ todo' = CallbacksTodo(w, f)
  BY <1>1, <1>2 DEF End, TaskEnds, At, Finish
<1>4. r \in WorkerRecords /\ r.pc = "get" /\ r.job = None
  BY <1>2 DEF WorkerRecords
<1>5. f \in Futures /\ state[f] \notin Settled
  BY <1>1, <1>3, JobsAreFutures DEF Settled
<1>6. \A v \in Workers \ {w} : todo'[v] = todo[v]
  BY <1>3 DEF CallbacksTodo, FutureTypeOK, Actors, Workers
<1>7. "FINISHED" \in {"RUNNING"} \cup Settled /\ "FINISHED" \in Settled
  BY DEF Settled
<1> QED BY <1>1, <1>3, <1>4, <1>5, <1>6, <1>7, WorkerMovesFuture

\* The future is settled all the same, and its worker takes no other one.
LEMMA DieStep ==
  ASSUME FutureAssumption, ThreadPoolAssumption, FutureTypeOK, FutureTypeOK', PoolInv,
         NEW w \in Workers, Die(w)
  PROVE  PoolInv'
<1>1. PICK f : f = Job(w)
  OBVIOUS
<1>2. PICK r : r = [pc |-> "dead", job |-> None]
  OBVIOUS
<1>3. PICK s : s \in Settled /\ state' = [state EXCEPT ![f] = s]
  BY <1>1 DEF Die, NotifyCancelRaises, FinishRaises, Settled
<1>4. /\ worker[w].pc \in {"start", "run"} /\ exit.pc # "over"
      /\ worker' = [worker EXCEPT ![w] = r]
      /\ UNCHANGED <<program, queue, shutdown, collected, lock, threads, joins, exit, todo>>
  BY <1>2 DEF Die, TaskEnds, At, NotifyCancelRaises, FinishRaises
<1>5. r \in WorkerRecords /\ r.pc = "dead" /\ r.job = None
  BY <1>2 DEF WorkerRecords
<1>6. f \in Futures /\ todo[w] = <<>> /\ state[f] \notin Settled
  BY <1>1, <1>4, JobsAreFutures DEF PoolInv, WorkIsOnce, Settled
<1>7. lock.who # w
  BY <1>4 DEF PoolInv, ThreadsListed, Die, TaskEnds, At
<1> QED BY <1>1, <1>3, <1>4, <1>5, <1>6, <1>7, WorkerMovesFuture

LEMMA CheckStep ==
  ASSUME FutureAssumption, ThreadPoolAssumption, PoolInv, NEW w \in Workers, Check(w)
  PROVE  PoolInv'
<1>1. /\ PoolTypeOK /\ worker[w].pc = "check" /\ exit.pc # "over" /\ Job(w) = None /\ todo[w] = <<>>
      /\ UNCHANGED <<futureVars, program, shutdown, collected, lock, threads, joins, exit>>
      /\ FutureTypeOK'
  BY TypeParts DEF Check, At, PoolInv, WorkIsOnce, ShutdownMeansDone, TypeOK, FutureTypeOK, futureVars
<1>2. PICK r \in WorkerRecords :
        /\ worker' = [worker EXCEPT ![w] = r] /\ r.job = None
        /\ \/ r.pc = "gone" /\ queue' = Append(queue, None) /\ (exit.pc # "no" \/ collected \/ shutdown)
           \/ r.pc = "get" /\ queue' = queue /\ ~(exit.pc # "no" \/ collected \/ shutdown)
  <2>1. CASE exit.pc # "no" \/ collected \/ shutdown
    <3> DEFINE r == [worker[w] EXCEPT !.pc = "gone"]
    <3>1. worker' = [worker EXCEPT ![w] = r] /\ queue' = Append(queue, None)
      BY <1>1, <2>1 DEF Check, PoolTypeOK
    <3>2. r \in WorkerRecords /\ r.job = None /\ r.pc = "gone"
      BY <1>1 DEF PoolTypeOK, WorkerRecords, Job
    <3> QED BY <2>1, <3>1, <3>2
  <2>2. CASE ~(exit.pc # "no" \/ collected \/ shutdown)
    <3> DEFINE r == [worker[w] EXCEPT !.pc = "get"]
    <3>1. worker' = [worker EXCEPT ![w] = r] /\ queue' = queue
      BY <1>1, <2>2 DEF Check, PoolTypeOK
    <3>2. r \in WorkerRecords /\ r.job = None /\ r.pc = "get"
      BY <1>1 DEF PoolTypeOK, WorkerRecords, Job
    <3> QED BY <2>2, <3>1, <3>2
  <2> QED BY <2>1, <2>2
<1>3. /\ worker' \in [Workers -> WorkerRecords]
      /\ worker'[w] = r /\ Job(w)' = None
      /\ \A v \in Workers \ {w} : worker'[v] = worker[v] /\ Job(v)' = Job(v)
  BY <1>1, <1>2, OneWorker
<1>4. /\ queue' \in Seq(Items) /\ ToSet(queue) \subseteq ToSet(queue')
      /\ ToSet(queue') \subseteq ToSet(queue) \cup {None}
      /\ QueuedOnce(queue) => QueuedOnce(queue')
      /\ NonesLast(queue) => NonesLast(queue')
  BY <1>1, <1>2, PutNoneInQueue DEF PoolTypeOK
<1>5. NoTaskSubmits' = NoTaskSubmits /\ Born' = Born /\ UNCHANGED <<state, todo>>
  BY <1>1 DEF NoTaskSubmits, Born, futureVars
<1>6. PoolTypeOK'
  BY <1>1, <1>3, <1>4 DEF PoolTypeOK
<1>7. WorkIsOnce'
  <2>1. \A g \in ToSet(queue') \ {None} : state[g] \in {"PENDING", "CANCELLED"}
    BY <1>4 DEF PoolInv, WorkIsOnce
  <2>2. ASSUME NEW v \in Workers
        PROVE  /\ Job(v)' # None <=> worker'[v].pc \in {"start", "run"}
               /\ worker'[v].pc = "start" => state[Job(v)'] \in {"PENDING", "CANCELLED"}
               /\ worker'[v].pc = "run" => state[Job(v)'] = "RUNNING"
               /\ worker'[v].pc # "get" => todo[v] = <<>>
               /\ Job(v)' # None =>
                    Job(v)' \notin ToSet(queue') /\ \A u \in Workers : Job(u)' = Job(v)' => u = v
    <3>1. CASE v = w
      BY <1>1, <1>2, <1>3, <3>1
    <3>2. CASE v # w
      BY <1>3, <1>4, <3>2 DEF PoolInv, WorkIsOnce
    <3> QED BY <3>1, <3>2
  <2>3. QueuedOnce(queue')
    BY <1>4 DEF PoolInv, WorkIsOnce
  <2> QED BY <1>5, <2>1, <2>2, <2>3 DEF WorkIsOnce
<1>8. WorkIsKept'
  <2> SUFFICES ASSUME NEW f \in Born
               PROVE  state[f] \in Settled \/ f \in ToSet(queue') \/ \E v \in Workers : Job(v)' = f
    BY <1>5 DEF WorkIsKept
  <2>1. f # None
    BY DEF Born, ThreadPoolAssumption
  <2> QED BY <1>1, <1>3, <1>4, <1>5, <2>1 DEF PoolInv, WorkIsKept
<1>9. ThreadsListed'
  <2>1. {v \in Workers : worker'[v].pc # "unborn"} = {v \in Workers : worker[v].pc # "unborn"}
    BY <1>1, <1>2, <1>3
  <2>2. lock.who # w
    BY <1>1 DEF PoolInv, ThreadsListed
  <2>3. lock.who \in Workers => worker'[lock.who] = worker[lock.who] /\ Job(lock.who)' = Job(lock.who)
    BY <1>1, <1>3, <2>2 DEF Job
  <2> QED BY <1>1, <1>5, <2>1, <2>3 DEF PoolInv, ThreadsListed, Job
<1>10. NoneIsLast'
  <2>1. w \in Stopping /\ Stopping' \subseteq Stopping
    BY <1>1, <1>2, <1>3 DEF Stopping
  \* a worker that took a None goes on only if it was none to stop it.
  <2>2. r.pc = "gone"
    BY <1>1, <1>2, <2>1 DEF PoolInv, NoneIsLast
  <2>3. exit.pc # "no" \/ shutdown \/ collected
    BY <1>2, <2>2
  <2>4. ASSUME exit.pc = "no" \/ shutdown \/ collected \/ NoTaskSubmits
        PROVE  NonesLast(queue') /\ ToSet(queue') \subseteq {None}
    <3>1. NonesLast(queue) /\ ToSet(queue) \subseteq {None}
      BY <2>1, <2>4 DEF PoolInv, NoneIsLast
    <3> QED BY <1>4, <3>1
  <2> QED BY <1>1, <1>5, <2>3, <2>4 DEF NoneIsLast
<1>11. NobodySubmits'
  <2>1. Gone(threads \ exit.told) => Gone(threads \ exit.told)'
    BY <1>1, <1>3 DEF Gone, Ended, PoolTypeOK
  <2> QED BY <1>1, <1>5, <2>1 DEF PoolInv, NobodySubmits
<1>12. ShutdownMeansDone'
  BY <1>1, <1>6, WorkerIsJoined
<1> QED BY <1>7, <1>8, <1>9, <1>10, <1>11, <1>12 DEF PoolInv

-----------------------------------------------------------------------------
(* The end of the executor.                                                *)

\* A step that leaves the workers alone and puts no work.
LEMMA NobodyWorks ==
  ASSUME PoolInv, UNCHANGED <<futureVars, program, lock, threads, worker>>
  PROVE  /\ FutureTypeOK' /\ Born' = Born /\ AllSettled' = AllSettled /\ AllDied' = AllDied
         /\ NoTaskSubmits' = NoTaskSubmits /\ Stopping' = Stopping
         /\ ThreadsListed'
         /\ queue' = queue => WorkIsOnce' /\ WorkIsKept'
<1>1. FutureTypeOK' /\ Born' = Born /\ AllSettled' = AllSettled
  BY DEF PoolInv, ShutdownMeansDone, TypeOK, FutureTypeOK, futureVars, AllSettled, Born
<1>2. NoTaskSubmits' = NoTaskSubmits /\ Stopping' = Stopping /\ AllDied' = AllDied
  BY DEF NoTaskSubmits, Stopping, AllDied
<1>3. ThreadsListed'
  BY <1>1 DEF PoolInv, ThreadsListed, Job
<1>4. ASSUME queue' = queue PROVE WorkIsOnce' /\ WorkIsKept'
  BY <1>1, <1>4 DEF PoolInv, WorkIsOnce, WorkIsKept, Job, futureVars
<1> QED BY <1>1, <1>2, <1>3, <1>4

\* Nones are put behind the work; no None need be there before.
LEMMA NonesArePut ==
  ASSUME ThreadPoolAssumption, PoolInv, UNCHANGED <<futureVars, program, worker>>,
         queue' \in Seq(Items),
         ToSet(queue) \subseteq ToSet(queue'), ToSet(queue') \subseteq ToSet(queue) \cup {None},
         QueuedOnce(queue) => QueuedOnce(queue')
  PROVE  WorkIsOnce' /\ WorkIsKept'
<1>1. Born' = Born /\ UNCHANGED <<state, todo>> /\ \A w \in Workers : Job(w)' = Job(w)
  BY DEF Born, Job, futureVars
<1>2. QueuedOnce(queue')
  BY DEF PoolInv, WorkIsOnce
<1>3. \A f \in ToSet(queue') \ {None} : state[f] \in {"PENDING", "CANCELLED"}
  BY DEF PoolInv, WorkIsOnce
<1>4. \A w \in Workers : Job(w) # None => Job(w) \notin ToSet(queue')
  BY DEF PoolInv, WorkIsOnce
<1>5. WorkIsOnce'
  BY <1>1, <1>2, <1>3, <1>4 DEF PoolInv, WorkIsOnce, Job
<1>6. WorkIsKept'
  BY <1>1 DEF PoolInv, WorkIsKept
<1> QED BY <1>5, <1>6

LEMMA NothingIsLeft ==
  ASSUME ThreadPoolAssumption, PoolInv, Gone(threads), lock.at \notin Workers \cup {"adjust"},
         exit.pc = "no" \/ shutdown \/ collected \/ NoTaskSubmits
  PROVE  (AllSettled \/ AllDied) /\ \A w \in Workers : worker[w].pc \in {"unborn", "gone", "dead"}
<1>1. \A w \in Workers : worker[w].pc \in {"unborn", "gone", "dead"}
  BY DEF PoolInv, ThreadsListed, Gone, Ended
<1>2. \A w \in Workers : Job(w) = None
  BY <1>1 DEF PoolInv, WorkIsOnce
<1>3. ASSUME NEW f \in Born, ~AllDied PROVE state[f] \in Settled
  \* one worker at least took a None and stopped, after all the work.
  <2>1. Stopping # {}
    <3>1. PICK w \in Workers : worker[w].pc # "unborn"
      BY <1>3 DEF PoolInv, ThreadsListed
    <3>2. \E v \in Workers : worker[v].pc = "gone"
      BY <1>1, <1>3, <3>1 DEF AllDied
    <3> QED BY <3>2 DEF Stopping
  <2>2. f \in Futures /\ f # None
    BY DEF Born, ThreadPoolAssumption
  <2>3. f \notin ToSet(queue)
    BY <2>1, <2>2 DEF PoolInv, NoneIsLast
  <2> QED BY <1>2, <2>2, <2>3 DEF PoolInv, WorkIsKept
<1> QED BY <1>1, <1>3 DEF AllSettled

\* shutdown(): the lock is free, so nobody is about to put work.
LEMMA ShutdownStep ==
  ASSUME FutureAssumption, ThreadPoolAssumption, PoolInv, FutureTypeOK',
         NEW c \in Clients, NEW wait \in BOOLEAN, Shutdown(c, wait)
  PROVE  PoolInv'
<1>1. /\ PoolTypeOK /\ exit.pc = "no" /\ lock = Unlocked /\ ~collected /\ shutdown' = TRUE
      /\ queue \in Seq(Items) /\ queue' = Append(queue, None)
      /\ UNCHANGED <<program, collected, lock, threads, worker, exit, state, todo>>
      /\ joins' = [joins EXCEPT ![c] = IF wait THEN "waiting" ELSE @]
  BY TypeParts DEF Shutdown, ClientRuns, CallElsewhere, PoolTypeOK
<1>2. /\ queue' \in Seq(Items) /\ ToSet(queue') = ToSet(queue) \cup {None}
      /\ QueuedOnce(queue) => QueuedOnce(queue')
      /\ NonesLast(queue) => NonesLast(queue')
  BY <1>1, PutNoneInQueue
<1>3. /\ joins' \in [Clients -> {"no", "waiting", "done"}]
      /\ \A d \in Clients : joins'[d] = "done" => joins[d] = "done"
  BY <1>1 DEF PoolTypeOK
<1>4. PoolTypeOK'
  BY <1>1, <1>2, <1>3 DEF PoolTypeOK
<1>5. /\ Born' = Born /\ NoTaskSubmits' = NoTaskSubmits /\ Stopping' = Stopping /\ AllSettled' = AllSettled
      /\ AllDied' = AllDied /\ \A w \in Workers : Job(w)' = Job(w)
  BY <1>1 DEF Born, NoTaskSubmits, Stopping, AllSettled, AllDied, Job
<1>6. WorkIsOnce'
  <2>1. QueuedOnce(queue') /\ \A f \in ToSet(queue') \ {None} : state[f] \in {"PENDING", "CANCELLED"}
    BY <1>2 DEF PoolInv, WorkIsOnce
  <2> QED BY <1>1, <1>2, <1>5, <2>1 DEF PoolInv, WorkIsOnce, Job
<1>7. WorkIsKept'
  BY <1>1, <1>2, <1>5 DEF PoolInv, WorkIsKept
<1>8. ThreadsListed'
  BY <1>1, <1>5 DEF PoolInv, ThreadsListed, Job
<1>9. NoneIsLast'
  <2>1. NonesLast(queue) /\ (Stopping # {} => ToSet(queue) \subseteq {None})
    BY <1>1 DEF PoolInv, NoneIsLast
  <2> QED BY <1>1, <1>2, <1>5, <2>1 DEF NoneIsLast
<1>10. NobodySubmits'
  BY <1>1, <1>5 DEF PoolInv, NobodySubmits, Gone, Ended
<1>11. ShutdownMeansDone'
  BY <1>1, <1>3, <1>4, <1>5 DEF PoolInv, ShutdownMeansDone, TypeOK, PoolTypeOK, WorkerRecords, Items
<1> QED BY <1>6, <1>7, <1>8, <1>9, <1>10, <1>11 DEF PoolInv

\* shutdown(wait=True) returns: the workers it has joined left nothing.
LEMMA JoinedStep ==
  ASSUME FutureAssumption, ThreadPoolAssumption, PoolInv, NEW c \in Clients, Joined(c)
  PROVE  PoolInv'
<1>1. /\ PoolTypeOK /\ joins[c] = "waiting" /\ Gone(threads) /\ joins' = [joins EXCEPT ![c] = "done"]
      /\ UNCHANGED <<futureVars, program, queue, shutdown, collected, lock, threads, worker, exit>>
  BY TypeParts DEF Joined
<1>2. shutdown /\ lock = Unlocked
  BY <1>1 DEF PoolInv, NobodySubmits
<1>3. (AllSettled \/ AllDied) /\ \A w \in Workers : worker[w].pc \in {"unborn", "gone", "dead"}
  BY <1>1, <1>2, NothingIsLeft, UnlockedIsFree DEF ThreadPoolAssumption
<1>4. /\ FutureTypeOK' /\ Born' = Born /\ AllSettled' = AllSettled /\ AllDied' = AllDied
      /\ NoTaskSubmits' = NoTaskSubmits /\ Stopping' = Stopping
      /\ ThreadsListed' /\ WorkIsOnce' /\ WorkIsKept'
  BY <1>1, NobodyWorks
<1>5. PoolTypeOK'
  BY <1>1 DEF PoolTypeOK
<1>6. NoneIsLast'
  BY <1>1, <1>4 DEF PoolInv, NoneIsLast
<1>7. NobodySubmits'
  BY <1>1, <1>2, <1>4 DEF PoolInv, NobodySubmits, Gone, Ended, futureVars
<1>8. ShutdownMeansDone'
  BY <1>1, <1>3, <1>4, <1>5 DEF ShutdownMeansDone, TypeOK, PoolTypeOK, WorkerRecords, Items
<1> QED BY <1>4, <1>6, <1>7, <1>8 DEF PoolInv

\* weakref_cb(): a None for every worker, behind all work.
LEMMA CollectStep ==
  ASSUME FutureAssumption, ThreadPoolAssumption, PoolInv, Collect
  PROVE  PoolInv'
<1> DEFINE k == Cardinality({w \in threads : ~Ended(w)})
<1>1. /\ PoolTypeOK /\ exit.pc = "no" /\ lock = Unlocked /\ collected' = TRUE
      /\ queue \in Seq(Items) /\ queue' = queue \o [i \in 1..k |-> None]
      /\ \A f \in Born : program.spawns[f] # None => state[f] \in Settled
      /\ UNCHANGED <<futureVars, program, shutdown, lock, threads, worker, joins, exit>>
  BY TypeParts DEF Collect, PoolTypeOK
<1>2. k \in Nat
  <2>1. IsFiniteSet({w \in threads : ~Ended(w)})
    BY <1>1, FS_Subset DEF ThreadPoolAssumption, PoolTypeOK
  <2> QED BY <2>1, FS_CardinalityType
<1> HIDE DEF k
<1>3. /\ queue' \in Seq(Items) /\ ToSet(queue) \subseteq ToSet(queue')
      /\ ToSet(queue') \subseteq ToSet(queue) \cup {None}
      /\ QueuedOnce(queue) => QueuedOnce(queue')
      /\ NonesLast(queue) => NonesLast(queue')
  BY <1>1, <1>2, PutNonesInQueue
<1>4. /\ FutureTypeOK' /\ Born' = Born /\ AllSettled' = AllSettled /\ AllDied' = AllDied
      /\ NoTaskSubmits' = NoTaskSubmits /\ Stopping' = Stopping /\ ThreadsListed'
  BY <1>1, NobodyWorks
<1>5. WorkIsOnce' /\ WorkIsKept'
  BY <1>1, <1>3, NonesArePut
<1>6. PoolTypeOK'
  BY <1>1, <1>3 DEF PoolTypeOK
<1>7. NoneIsLast'
  <2>1. NonesLast(queue) /\ (Stopping # {} => ToSet(queue) \subseteq {None})
    BY <1>1 DEF PoolInv, NoneIsLast
  <2> QED BY <1>1, <1>3, <1>4, <2>1 DEF NoneIsLast
<1>8. NobodySubmits'
  BY <1>1, <1>4 DEF PoolInv, NobodySubmits, Gone, Ended, futureVars
<1>9. ShutdownMeansDone'
  BY <1>1, <1>6, NothingUndone
<1> QED BY <1>4, <1>5, <1>7, <1>8, <1>9 DEF PoolInv

\* _python_exit() begins when no client is in a call.
LEMMA ExitFlagStep ==
  ASSUME FutureAssumption, ThreadPoolAssumption, PoolInv, ExitFlag
  PROVE  PoolInv'
<1>1. /\ PoolTypeOK /\ exit.pc = "no" /\ exit' = [exit EXCEPT !.pc = "flagged"]
      /\ exit'.pc = "flagged" /\ \A c \in Clients : lock.who # c
      /\ UNCHANGED <<futureVars, program, queue, shutdown, collected, lock, threads, worker, joins>>
  BY TypeParts DEF ExitFlag, ClientRuns, PoolTypeOK
<1>2. /\ FutureTypeOK' /\ Born' = Born /\ AllSettled' = AllSettled /\ AllDied' = AllDied
      /\ NoTaskSubmits' = NoTaskSubmits /\ Stopping' = Stopping
      /\ ThreadsListed' /\ WorkIsOnce' /\ WorkIsKept'
  BY <1>1, NobodyWorks
<1>3. PoolTypeOK'
  BY <1>1 DEF PoolTypeOK
<1>4. NoneIsLast'
  BY <1>1, <1>2 DEF PoolInv, NoneIsLast
<1>5. NobodySubmits'
  BY <1>1, <1>2 DEF PoolInv, NobodySubmits, futureVars
<1>6. ShutdownMeansDone'
  BY <1>1, <1>2, <1>3 DEF PoolInv, ShutdownMeansDone, TypeOK, PoolTypeOK, WorkerRecords, Items
<1> QED BY <1>2, <1>4, <1>5, <1>6 DEF PoolInv

\* Whom _python_exit() does not list has gone, or a task still submits.
LEMMA ExitListStep ==
  ASSUME FutureAssumption, ThreadPoolAssumption, PoolInv, ExitList
  PROVE  PoolInv'
<1> DEFINE told == {w \in threads : collected => ~Ended(w)}
<1>1. /\ PoolTypeOK /\ exit.pc = "flagged"
      /\ exit' = [pc |-> "wake", told |-> told, left |-> Cardinality(told)]
      /\ exit'.pc = "wake" /\ exit'.told = told
      /\ UNCHANGED <<futureVars, program, queue, shutdown, collected, lock, threads, worker, joins>>
  BY TypeParts DEF ExitList
<1>2. /\ FutureTypeOK' /\ Born' = Born /\ AllSettled' = AllSettled /\ AllDied' = AllDied
      /\ NoTaskSubmits' = NoTaskSubmits /\ Stopping' = Stopping
      /\ ThreadsListed' /\ WorkIsOnce' /\ WorkIsKept'
  BY <1>1, NobodyWorks
<1>3. PoolTypeOK'
  <2>1. IsFiniteSet(told) /\ told \in SUBSET Workers
    BY <1>1, FS_Subset DEF ThreadPoolAssumption, PoolTypeOK
  <2>2. Cardinality(told) \in Nat
    BY <2>1, FS_CardinalityType
  <2> QED BY <1>1, <2>1, <2>2 DEF PoolTypeOK
<1>4. NoneIsLast'
  BY <1>1, <1>2 DEF PoolInv, NoneIsLast
<1>5. NobodySubmits'
  <2>1. \A w \in threads \ told : Ended(w)
    OBVIOUS
  <2> QED BY <1>1, <1>2, <2>1 DEF PoolInv, NobodySubmits, Gone, Ended, futureVars
<1>6. ShutdownMeansDone'
  BY <1>1, <1>2, <1>3 DEF PoolInv, ShutdownMeansDone, TypeOK, PoolTypeOK, WorkerRecords, Items
<1> QED BY <1>2, <1>4, <1>5, <1>6 DEF PoolInv

LEMMA ExitWakeStep ==
  ASSUME FutureAssumption, ThreadPoolAssumption, PoolInv, ExitWake
  PROVE  PoolInv'
<1>1. /\ PoolTypeOK /\ exit.pc = "wake" /\ exit.left > 0 /\ exit' = [exit EXCEPT !.left = @ - 1]
      /\ queue \in Seq(Items) /\ queue' = Append(queue, None)
      /\ UNCHANGED <<futureVars, program, shutdown, collected, lock, threads, worker, joins>>
  BY TypeParts DEF ExitWake, PoolTypeOK
<1>2. exit'.pc = "wake" /\ exit'.told = exit.told
  BY <1>1 DEF PoolTypeOK
<1>3. /\ queue' \in Seq(Items) /\ ToSet(queue') = ToSet(queue) \cup {None}
      /\ QueuedOnce(queue) => QueuedOnce(queue')
      /\ NonesLast(queue) => NonesLast(queue')
  BY <1>1, PutNoneInQueue
<1>4. /\ FutureTypeOK' /\ Born' = Born /\ AllSettled' = AllSettled /\ AllDied' = AllDied
      /\ NoTaskSubmits' = NoTaskSubmits /\ Stopping' = Stopping /\ ThreadsListed'
  BY <1>1, NobodyWorks
<1>5. WorkIsOnce' /\ WorkIsKept'
  BY <1>1, <1>3, NonesArePut
<1>6. PoolTypeOK'
  <2>1. exit.left \in Nat /\ exit.left - 1 \in Nat
    BY <1>1 DEF PoolTypeOK
  <2>2. exit' \in [pc : {"no", "flagged", "wake", "over"}, told : SUBSET Workers, left : Nat]
    BY <1>1, <2>1 DEF PoolTypeOK
  <2> QED BY <1>1, <1>3, <2>2 DEF PoolTypeOK
<1>7. NoneIsLast'
  <2>1. shutdown \/ collected \/ NoTaskSubmits =>
          NonesLast(queue) /\ (Stopping # {} => ToSet(queue) \subseteq {None})
    BY <1>1 DEF PoolInv, NoneIsLast
  <2> QED BY <1>1, <1>2, <1>3, <1>4, <2>1 DEF NoneIsLast
<1>8. NobodySubmits'
  BY <1>1, <1>2, <1>4 DEF PoolInv, NobodySubmits, Gone, Ended, futureVars
<1>9. ShutdownMeansDone'
  BY <1>1, <1>2, <1>4, <1>6 DEF PoolInv, ShutdownMeansDone, TypeOK, PoolTypeOK, WorkerRecords, Items
<1> QED BY <1>4, <1>5, <1>7, <1>8, <1>9 DEF PoolInv

\* The handler has joined the workers it listed; the others had gone.
LEMMA ExitJoinStep ==
  ASSUME FutureAssumption, ThreadPoolAssumption, PoolInv, ExitJoin
  PROVE  PoolInv'
<1>1. /\ PoolTypeOK /\ exit.pc = "wake" /\ Gone(exit.told) /\ exit' = [exit EXCEPT !.pc = "over"]
      /\ UNCHANGED <<futureVars, program, queue, shutdown, collected, lock, threads, worker, joins>>
  BY TypeParts DEF ExitJoin
<1>2. exit'.pc = "over" /\ exit'.told = exit.told
  BY <1>1 DEF PoolTypeOK
<1>3. /\ FutureTypeOK' /\ Born' = Born /\ AllSettled' = AllSettled /\ AllDied' = AllDied
      /\ NoTaskSubmits' = NoTaskSubmits /\ Stopping' = Stopping
      /\ ThreadsListed' /\ WorkIsOnce' /\ WorkIsKept'
  BY <1>1, NobodyWorks
<1>4. PoolTypeOK'
  BY <1>1 DEF PoolTypeOK
<1>5. NoneIsLast'
  BY <1>1, <1>2, <1>3 DEF PoolInv, NoneIsLast
<1>6. NobodySubmits'
  BY <1>1, <1>2, <1>3 DEF PoolInv, NobodySubmits, Gone, Ended, futureVars
<1>7. NoTaskSubmits => AllSettled \/ AllDied
  <2> HAVE NoTaskSubmits
  <2>1. Gone(threads)
    BY <1>1 DEF PoolInv, NobodySubmits, Gone, Ended
  <2>2. lock.who = None
    BY <1>1, NobodyIsAdded
  <2>3. lock.at \notin Workers \cup {"adjust"}
    BY <2>2 DEF PoolInv, ThreadsListed, ThreadPoolAssumption
  <2> QED BY <2>1, <2>3, NothingIsLeft
<1>8. ShutdownMeansDone'
  <2>1. AllSettled \/ AllDied \/ \E f \in Futures : program.spawns[f] # None
    BY <1>7 DEF NoTaskSubmits
  <2> QED BY <1>1, <1>2, <1>3, <1>4, <2>1
          DEF PoolInv, ShutdownMeansDone, TypeOK, PoolTypeOK, WorkerRecords, Items
<1> QED BY <1>3, <1>5, <1>6, <1>8 DEF PoolInv

-----------------------------------------------------------------------------
(* The theorems.                                                           *)

\* A client's call or a callback settles no future and unsettles none.
LEMMA ClientsMove ==
  ASSUME FutureAssumption, ThreadPoolAssumption, FutureTypeOK', IInv,
         UNCHANGED poolVars,
         \/ \E c \in Clients, kinds \in SUBSET Calls : FutureCall(c, kinds)
         \/ \E c \in Clients : FutureProceed(c)
         \/ \E w \in Workers : Callback(w)
  PROVE  PoolInv'
<1>1. FutureTypeOK
  BY DEF IInv, PoolInv, ShutdownMeansDone, TypeOK
<1>2. \A w \in Workers : w \in Actors /\ w \notin Clients
  BY DEF FutureAssumption, Workers, Actors
<1> DEFINE Moved ==
      /\ \A f \in Futures : state'[f] = state[f] \/ (state[f] = "PENDING" /\ state'[f] = "CANCELLED")
      /\ \A w \in Workers : todo[w] = <<>> => todo'[w] = todo[w]
<1>3. ASSUME NEW c \in Clients, NEW f \in Futures, Cancel(c, f) PROVE Moved
  BY <1>1, <1>2, <1>3 DEF Cancel, CallbacksTodo, FutureTypeOK
<1>11. ASSUME NEW c \in Clients, NEW f \in Futures, CancelRaises(c, f) PROVE Moved
  BY <1>1, <1>11 DEF CancelRaises, FutureTypeOK
<1>4. ASSUME NEW c \in Clients, NEW f \in Futures, AddDoneCallback(c, f) PROVE Moved
  BY <1>1, <1>2, <1>4 DEF AddDoneCallback, FutureTypeOK
<1>5. ASSUME NEW a \in Actors, Callback(a) PROVE Moved
  BY <1>1, <1>2, <1>5 DEF Callback, FutureTypeOK
<1>6. ASSUME UNCHANGED <<state, todo>> PROVE Moved
  BY <1>6
<1> HIDE DEF Moved
<1>7. ASSUME NEW c \in Clients, NEW kinds \in SUBSET Calls, FutureCall(c, kinds) PROVE Moved
  <2>1. ASSUME NEW f \in Futures, NEW timed \in BOOLEAN, Result(c, f, timed) PROVE Moved
    BY <1>6, <2>1 DEF Result
  <2>2. ASSUME NEW fs \in SUBSET Futures, NEW timed \in BOOLEAN, AsCompleted(c, fs, timed) PROVE Moved
    BY <1>6, <2>2 DEF AsCompleted, CreateAndInstallWaiter
  <2>3. ASSUME NEW fs \in SUBSET Futures, NEW timed \in BOOLEAN, NEW mode \in Modes, Wait(c, fs, mode, timed)
        PROVE  Moved
    BY <1>6, <2>3 DEF Wait, CreateAndInstallWaiter
  <2> QED BY <1>3, <1>4, <1>7, <1>11, <2>1, <2>2, <2>3 DEF FutureCall
<1>8. ASSUME NEW c \in Clients, FutureProceed(c) PROVE Moved
  <2>1. CASE Callback(c)
    BY <1>5, <2>1 DEF Actors
  <2>2. CASE ~Callback(c)
    <3>1. UNCHANGED <<state, todo>>
      BY <1>8, <2>2 DEF FutureProceed, GotResult, Woken, TakeFinished, GiveUp, RemoveWaiter, Return
    <3> QED BY <1>6, <3>1
  <2> QED BY <2>1, <2>2
<1>9. Moved
  BY <1>2, <1>5, <1>7, <1>8
<1>10. \A f \in Futures : state[f] \in States
  BY <1>1 DEF FutureTypeOK
<1> QED BY <1>9, <1>10, FuturesMove DEF IInv, Moved

LEMMA InitIInv ==
  ASSUME FutureAssumption, ThreadPoolAssumption, Init
  PROVE  IInv
<1>1. FutureIInv
  BY FutureInitIInv DEF Init
<1>2. /\ PoolTypeOK /\ FutureTypeOK
      /\ queue = <<>> /\ ToSet(queue) = {} /\ Born = {} /\ Stopping = {} /\ lock = Unlocked
      /\ \A w \in Workers : worker[w].pc = "unborn" /\ Job(w) = None /\ todo[w] = <<>>
  <2>1. <<>> \in Seq(Items) /\ ToSet(<<>>) = {}
    BY DEF ToSet
  <2>2. Born = {}
    BY DEF Init, FutureInit, Born
  <2>3. FutureTypeOK
    BY <1>1 DEF FutureIInv
  <2>4. \A w \in Workers : w \in Actors
    BY DEF Actors, Workers
  <2> QED BY <2>1, <2>2, <2>3, <2>4 DEF Init, FutureInit, PoolTypeOK, WorkerRecords, Job, Stopping, Unlocked
<1>3. WorkIsOnce /\ WorkIsKept
  BY <1>2 DEF WorkIsOnce, WorkIsKept, QueuedOnce
<1>4. ThreadsListed
  BY <1>2, UnlockedIsFree DEF ThreadsListed, Init
<1>5. NoneIsLast
  BY <1>2 DEF NoneIsLast, NonesLast
<1>6. NobodySubmits
  BY <1>2 DEF NobodySubmits, Init
<1>7. ShutdownMeansDone
  BY <1>2 DEF ShutdownMeansDone, TypeOK, PoolTypeOK, WorkerRecords, Items, Init
<1> QED BY <1>1, <1>3, <1>4, <1>5, <1>6, <1>7 DEF IInv, PoolInv

LEMMA NextIInv ==
  ASSUME FutureAssumption, ThreadPoolAssumption, IInv, [Next]_vars
  PROVE  IInv'
<1>1. PoolInv /\ FutureIInv
  BY DEF IInv
<1>2. CASE UNCHANGED vars
  <2>1. FutureIInv'
    BY <1>1, <1>2, FutureNextIInv DEF vars
  <2>2. FutureTypeOK'
    BY <2>1 DEF FutureIInv
  <2>3. UNCHANGED poolVars /\ UNCHANGED <<state, todo>>
    BY <1>2 DEF vars, futureVars
  <2>4. PoolInv'
    BY <1>1, <2>2, <2>3, FuturesMove DEF PoolInv, ShutdownMeansDone, TypeOK, FutureTypeOK
  <2> QED BY <2>1, <2>4 DEF IInv
<1>3. CASE Next
  <2>1. FutureIInv'
    BY <1>1, <1>3, StepImplements, FutureNextIInv
  <2>2. FutureTypeOK' /\ FutureTypeOK
    BY <1>1, <2>1 DEF FutureIInv
  <2>3. ASSUME NEW c \in Clients, ClientCall(c) PROVE PoolInv'
    <3>1. ASSUME NEW f \in Futures, ClientSubmit(c, f) PROVE PoolInv'
      BY <1>1, <2>2, <3>1, PutItemStep DEF ClientSubmit, ClientRuns, Actors
    <3>2. ASSUME NEW wait \in BOOLEAN, Shutdown(c, wait) PROVE PoolInv'
      BY <1>1, <2>2, <3>2, ShutdownStep
    <3>3. ASSUME FutureCall(c, program.calls[c]) PROVE FutureCall(c, Calls)
      BY <3>3 DEF FutureCall, Calls
    <3>4. ASSUME FutureCall(c, Calls), UNCHANGED poolVars PROVE PoolInv'
      BY <2>2, <3>4, ClientsMove
    <3> QED BY <2>3, <3>1, <3>2, <3>3, <3>4 DEF ClientCall
  <2>4. ASSUME NEW c \in Clients, ClientProceed(c) PROVE PoolInv'
    BY <2>2, <2>4, ClientsMove DEF ClientProceed
  <2>5. ASSUME NEW c \in Clients, Joined(c) PROVE PoolInv'
    BY <1>1, <2>5, JoinedStep
  <2>6. ASSUME NEW w \in Workers, WorkerStep(w) PROVE PoolInv'
    <3>1. CASE Get(w)
      BY <1>1, <3>1, GetStep
    <3>2. CASE Start(w)
      BY <1>1, <2>2, <3>2, StartStep
    <3>3. CASE Check(w)
      BY <1>1, <3>3, CheckStep
    <3>4. CASE WorkerCallback(w)
      BY <2>2, <3>4, ClientsMove DEF WorkerCallback
    <3>5. CASE TaskSubmit(w)
      <4>1. /\ worker[w].pc = "run" /\ exit.pc # "over" /\ program.spawns[Job(w)] # None
            /\ PutItem(w, program.spawns[Job(w)])
        BY <3>5 DEF TaskSubmit, At
      <4>2. program.spawns[Job(w)] \in Futures
        BY <1>1, <4>1, JobsAreFutures, ProgramType, TypeParts
      <4>3. w \in Actors /\ w \notin Clients
        BY DEF FutureAssumption, Actors, Workers
      <4> QED BY <1>1, <2>2, <4>1, <4>2, <4>3, PutItemStep
    <3>6. ASSUME NEW how \in {"result", "exception"}, End(w, how) PROVE PoolInv'
      BY <1>1, <2>2, <3>6, EndStep
    <3>7. CASE Die(w)
      BY <1>1, <2>2, <3>7, DieStep
    <3> QED BY <2>6, <3>1, <3>2, <3>3, <3>4, <3>5, <3>6, <3>7 DEF WorkerStep
  <2>7. ASSUME AdjustThreadCount PROVE PoolInv'
    BY <1>1, <2>7, AdjustThreadCountStep
  <2>8. ASSUME AddThread PROVE PoolInv'
    BY <1>1, <2>8, AddThreadStep
  <2>9. ASSUME Collect PROVE PoolInv'
    BY <1>1, <2>9, CollectStep
  <2>10. ASSUME ExitFlag PROVE PoolInv'
    BY <1>1, <2>10, ExitFlagStep
  <2>11. ASSUME Exit PROVE PoolInv'
    BY <1>1, <2>11, ExitListStep, ExitWakeStep, ExitJoinStep DEF Exit
  <2> QED BY <1>3, <2>1, <2>3, <2>4, <2>5, <2>6, <2>7, <2>8, <2>9, <2>10, <2>11 DEF Next, IInv
<1> QED BY <1>2, <1>3

\* Between any two steps each work item is in one place, behind a None there is
\* no work unless a task submits while the program exits, and who was told that
\* everything is done was told the truth (_worker(), submit(), shutdown(),
\* weakref_cb() and _python_exit()).
THEOREM PoolInvariance == Spec => []IInv
<1>1. Init => IInv
  BY InitIInv, FutureAssumption, ThreadPoolAssumption
<1>2. IInv /\ [Next]_vars => IInv'
  BY NextIInv, FutureAssumption, ThreadPoolAssumption
<1> QED BY <1>1, <1>2, PTL DEF Spec

\* The pool implements FutureSpec: a worker asks each future whether it may run,
\* finishes only what it began to run, once, and calls the callbacks of what it
\* has finished before it takes the next work item (_worker(), _WorkItem.run()).
THEOREM PoolImplementsFutures == Spec => ImplementsFutures
<1>1. Init => FutureInit
  BY DEF Init
<1>2. IInv /\ [Next]_vars => [FutureNext]_futureVars
  <2>1. UNCHANGED vars => UNCHANGED futureVars
    BY DEF vars
  <2> QED BY <2>1, StepImplements, ThreadPoolAssumption DEF IInv
<1> QED BY <1>1, <1>2, PoolInvariance, PTL DEF Spec, ImplementsFutures, FutureSpec

\* When shutdown(wait=True) has returned every future that was submitted is done
\* and every worker has ended; so it is when the program has ended, if no task
\* submits (ThreadPoolExecutor.shutdown(), _python_exit()).  One worker that has
\* not died of a RuntimeError out of its future is enough for that.
THEOREM ShutdownLeavesNothing == Spec => []ShutdownMeansDone
<1>1. IInv => ShutdownMeansDone
  BY DEF IInv, PoolInv
<1> QED BY <1>1, PoolInvariance, PTL

\* What holds of the futures of every executor holds of the pool's: callbacks are
\* called once, no completion is lost to a waiter, and what a call returns is true.
THEOREM PoolKeepsPromises ==
  Spec => [](CallbacksOnce /\ WaiterWillWake /\ AnswersTrue)
<1>1. Spec => FutureSpec
  BY PoolImplementsFutures DEF ImplementsFutures
<1> QED BY <1>1, CallbacksAreCalledOnce, NoCompletionIsLost, AnswersAreTrue, PTL
=============================================================================

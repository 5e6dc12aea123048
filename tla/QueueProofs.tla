----------------------------- MODULE QueueProofs -----------------------------
(***************************************************************************)
(* Queue keeps every change and every failure for as many keys and as many *)
(* failures as there may be, and implements ReconcileSpec.                 *)
(***************************************************************************)
EXTENDS Queue, SequenceTheorems, TLAPS

(* Most leaves are first-order; those with arithmetic or nested EXCEPT cite SMT. *)
USE ZenonT(30), SMTT(30)

(* What Append does to a sequence without repetitions *)
LEMMA AppendFacts ==
  ASSUME NEW S, NEW s \in Seq(S), NEW x \in S
  PROVE  /\ Append(s, x) \in Seq(S)
         /\ ToSet(Append(s, x)) = ToSet(s) \cup {x}
         /\ IsInjective(s) /\ x \notin ToSet(s) => IsInjective(Append(s, x))
<1>1. /\ Append(s, x) \in Seq(S)
      /\ Len(Append(s, x)) = Len(s) + 1
      /\ \A i \in 1..Len(s) : Append(s, x)[i] = s[i]
      /\ Append(s, x)[Len(s) + 1] = x
      /\ DOMAIN s = 1..Len(s)
      /\ DOMAIN Append(s, x) = 1..(Len(s) + 1)
      /\ Len(s) \in Nat
  BY SMTT(30)
<1>2. ToSet(Append(s, x)) = ToSet(s) \cup {x}
  BY <1>1, SMTT(30) DEF ToSet
<1>3. ASSUME IsInjective(s), x \notin ToSet(s)
      PROVE  IsInjective(Append(s, x))
  BY <1>1, <1>3, SMTT(30) DEF IsInjective, ToSet
<1>. QED  BY <1>1, <1>2, <1>3

(* What taking the head off does to it *)
LEMMA TailFacts ==
  ASSUME NEW S, NEW s \in Seq(S), s # <<>>
  PROVE  /\ Head(s) \in S
         /\ Tail(s) \in Seq(S)
         /\ ToSet(s) = ToSet(Tail(s)) \cup {Head(s)}
         /\ IsInjective(s) => IsInjective(Tail(s)) /\ Head(s) \notin ToSet(Tail(s))
<1>1. /\ Head(s) = s[1]
      /\ Tail(s) \in Seq(S)
      /\ Len(s) \in Nat /\ Len(s) > 0
      /\ Len(Tail(s)) = Len(s) - 1
      /\ \A i \in 1..(Len(s) - 1) : Tail(s)[i] = s[i + 1]
      /\ DOMAIN s = 1..Len(s)
      /\ DOMAIN Tail(s) = 1..(Len(s) - 1)
      /\ Head(s) \in S
  BY SMTT(30)
<1>2. ToSet(s) = ToSet(Tail(s)) \cup {Head(s)}
  <2>1. ASSUME NEW i \in 1..Len(s)  PROVE s[i] \in ToSet(Tail(s)) \cup {Head(s)}
    <3>1. CASE i = 1
      BY <1>1, <3>1
    <3>2. CASE i # 1
      <4>1. i - 1 \in 1..(Len(s) - 1) /\ (i - 1) + 1 = i
        BY <1>1, <3>2, SMTT(30)
      <4>2. Tail(s)[i - 1] = s[i]
        BY <1>1, <4>1
      <4>. QED  BY <1>1, <4>1, <4>2 DEF ToSet
    <3>. QED  BY <3>1, <3>2
  <2>2. ASSUME NEW i \in 1..(Len(s) - 1)  PROVE Tail(s)[i] \in ToSet(s)
    BY <1>1, SMTT(30) DEF ToSet
  <2>. QED  BY <1>1, <2>1, <2>2, SMTT(30) DEF ToSet
<1>3. ASSUME IsInjective(s)
      PROVE  IsInjective(Tail(s)) /\ Head(s) \notin ToSet(Tail(s))
  BY <1>1, <1>3, SMTT(30) DEF IsInjective, ToSet
<1>. QED  BY <1>1, <1>2, <1>3

(* Taking the one occurrence of a key out of a sequence without repetitions *)
LEMMA RemoveFacts ==
  ASSUME NEW S, NEW s \in Seq(S), IsInjective(s), NEW i \in DOMAIN s
  PROVE  /\ RemoveAt(s, i) \in Seq(S)
         /\ ToSet(RemoveAt(s, i)) = ToSet(s) \ {s[i]}
         /\ IsInjective(RemoveAt(s, i))
<1>. DEFINE r == RemoveAt(s, i)
            n == Len(s)
<1>1. n \in Nat /\ DOMAIN s = 1..n /\ i \in 1..n
  BY SMTT(30)
<1>2. /\ SubSeq(s, 1, i - 1) \in Seq(S)
      /\ Len(SubSeq(s, 1, i - 1)) = i - 1
      /\ \A j \in 1..(i - 1) : SubSeq(s, 1, i - 1)[j] = s[j]
  BY <1>1, SMTT(30)
<1>3. /\ SubSeq(s, i + 1, n) \in Seq(S)
      /\ Len(SubSeq(s, i + 1, n)) = n - i
      /\ \A j \in 1..(n - i) : SubSeq(s, i + 1, n)[j] = s[j + i]
  BY <1>1, SMTT(30)
<1>4. /\ r \in Seq(S)
      /\ Len(r) = n - 1
      /\ DOMAIN r = 1..(n - 1)
  BY <1>1, <1>2, <1>3, SMTT(30) DEF RemoveAt
<1>5. \A j \in 1..(n - 1) : r[j] = IF j < i THEN s[j] ELSE s[j + 1]
  <2>1. \A j \in 1..(n - 1) :
          r[j] = IF j <= i - 1 THEN SubSeq(s, 1, i - 1)[j]
                               ELSE SubSeq(s, i + 1, n)[j - (i - 1)]
    <3>. DEFINE a == SubSeq(s, 1, i - 1)
                b == SubSeq(s, i + 1, n)
    <3>1. r = a \o b
      BY DEF RemoveAt
    <3>2. a \in Seq(S) /\ b \in Seq(S) /\ Len(a) = i - 1 /\ Len(b) = n - i
      BY <1>2, <1>3
    <3>3. (i - 1) + (n - i) = n - 1
      BY <1>1, SMTT(30)
    <3>4. \A j \in 1..(Len(a) + Len(b)) :
            (a \o b)[j] = IF j <= Len(a) THEN a[j] ELSE b[j - Len(a)]
      <4>. HIDE DEF a, b
      <4>. QED  BY <3>2, ConcatProperties
    <3>. HIDE DEF r
    <3>. QED  BY <3>1, <3>2, <3>3, <3>4
  <2>2. ASSUME NEW j \in 1..(n - 1), j < i  PROVE r[j] = s[j]
    BY <1>1, <1>2, <2>1, <2>2, SMTT(30)
  <2>3. ASSUME NEW j \in 1..(n - 1), ~(j < i)  PROVE r[j] = s[j + 1]
    <3>1. j - (i - 1) \in 1..(n - i) /\ (j - (i - 1)) + i = j + 1 /\ ~(j <= i - 1)
      BY <1>1, <2>3, SMTT(30)
    <3>. QED  BY <1>3, <2>1, <3>1
  <2>. QED  BY <2>2, <2>3
<1>6. IsInjective(r)
  <2>. DEFINE at(j) == IF j < i THEN j ELSE j + 1
  <2>1. \A j \in 1..(n - 1) : at(j) \in 1..n /\ r[j] = s[at(j)]
    BY <1>1, <1>5, SMTT(30)
  <2>2. \A j, l \in 1..(n - 1) : at(j) = at(l) => j = l
    BY <1>1, SMTT(30)
  <2>. HIDE DEF at, r
  <2>. QED  BY <1>1, <1>4, <2>1, <2>2 DEF IsInjective
<1>7. ASSUME NEW j \in 1..(n - 1)  PROVE r[j] \in ToSet(s) \ {s[i]}
  <2>1. PICK l \in 1..n : l # i /\ r[j] = s[l]
    BY <1>1, <1>5, SMTT(30)
  <2>. QED  BY <1>1, <2>1 DEF IsInjective, ToSet
<1>8. ASSUME NEW l \in 1..n, s[l] # s[i]  PROVE s[l] \in ToSet(r)
  <2>1. CASE l < i
    <3>1. l \in 1..(n - 1) /\ r[l] = s[l]
      BY <1>1, <1>5, <2>1, SMTT(30)
    <3>. QED  BY <1>4, <3>1 DEF ToSet
  <2>2. CASE l > i
    <3>1. l - 1 \in 1..(n - 1) /\ r[l - 1] = s[l]
      BY <1>1, <1>5, <2>2, SMTT(30)
    <3>. QED  BY <1>4, <3>1 DEF ToSet
  <2>. QED  BY <1>1, <1>8, <2>1, <2>2, SMTT(30)
<1>9. ToSet(r) = ToSet(s) \ {s[i]}
  BY <1>1, <1>4, <1>7, <1>8 DEF ToSet
<1>. QED  BY <1>4, <1>6, <1>9

-----------------------------------------------------------------------------
(***************************************************************************)
(* The inductive invariant.  The last conjunct is what ReconcileOk needs:  *)
(* when it takes the key off requeued, no failure of it is outstanding.    *)
(***************************************************************************)
IInv ==
  /\ TypeOK
  /\ NothingIsLost
  /\ QueuedOnce
  /\ RequeuedIsExact
  /\ pc = "reconcile" => key \notin owing

(* removeRequeued leaves the other keys, each once *)
LEMMA RemoveRequeuedFacts ==
  ASSUME NEW k \in Keys, requeued \in Seq(Keys), IsInjective(requeued)
  PROVE  /\ removeRequeued(k) \in Seq(Keys)
         /\ ToSet(removeRequeued(k)) = ToSet(requeued) \ {k}
         /\ IsInjective(removeRequeued(k))
<1>. DEFINE I == {i \in 1..Len(requeued) : requeued[i] = k}
<1>1. DOMAIN requeued = 1..Len(requeued)
  BY SMTT(30)
<1>2. CASE Contains(requeued, k)
  <2>1. PICK i \in 1..Len(requeued) : requeued[i] = k
    BY <1>2 DEF Contains
  <2>2. I = {i}
    BY <1>1, <2>1 DEF IsInjective
  <2>3. Min({i}) = i
    BY <2>1, SMTT(30) DEF Min
  <2>4. SelectInSeq(requeued, LAMBDA x : x = k) = i
    BY <2>2, <2>3 DEF SelectInSeq
  <2>5. removeRequeued(k) = RemoveAt(requeued, i)
    BY <1>2, <2>4 DEF removeRequeued
  <2>. QED  BY <1>1, <2>1, <2>5, RemoveFacts, SMTT(30)
<1>3. CASE ~Contains(requeued, k)
  <2>1. removeRequeued(k) = requeued
    BY <1>3 DEF removeRequeued
  <2>2. k \notin ToSet(requeued)
    BY <1>1, <1>3 DEF Contains, ToSet
  <2>. QED  BY <2>1, <2>2
<1>. QED  BY <1>2, <1>3

(* addRequeued adds the key, once *)
LEMMA AddRequeuedFacts ==
  ASSUME NEW k \in Keys, requeued \in Seq(Keys), IsInjective(requeued)
  PROVE  /\ addRequeued(k) \in Seq(Keys)
         /\ ToSet(addRequeued(k)) = ToSet(requeued) \cup {k}
         /\ IsInjective(addRequeued(k))
<1>1. Contains(requeued, k) <=> k \in ToSet(requeued)
  <2>1. DOMAIN requeued = 1..Len(requeued)
    BY SMTT(30)
  <2>. QED  BY <2>1 DEF Contains, ToSet
<1>. QED  BY <1>1, AppendFacts, SMTT(30) DEF addRequeued

(* The goroutine holds a key of Keys while it reconciles and until Done *)
LEMMA KeyHeld ==
  ASSUME IInv, pc \in {"reconcile", "done"}
  PROVE  key \in Keys /\ processing = {key}
BY DEF IInv, TypeOK, QueuedOnce

(* Enqueue keeps the queue exact and makes the key dirty *)
LEMMA EnqueueFacts ==
  ASSUME IInv, NEW k \in Keys, Enqueue(k)
  PROVE  /\ queue' \in Seq(Keys)
         /\ dirty' = IF shuttingDown THEN dirty ELSE dirty \cup {k}
         /\ IsInjective(queue')
         /\ ToSet(queue') = dirty' \ processing
<1>. USE DEF IInv, TypeOK, QueuedOnce
<1>1. CASE shuttingDown \/ k \in dirty
  BY <1>1 DEF Enqueue
<1>2. CASE ~(shuttingDown \/ k \in dirty) /\ k \in processing
  BY <1>2 DEF Enqueue
<1>3. CASE ~(shuttingDown \/ k \in dirty) /\ k \notin processing
  <2>1. queue' = Append(queue, k) /\ dirty' = dirty \cup {k} /\ k \notin ToSet(queue)
    BY <1>3 DEF Enqueue
  <2>2. /\ queue' \in Seq(Keys)
        /\ ToSet(queue') = ToSet(queue) \cup {k}
        /\ IsInjective(queue')
    BY <2>1, AppendFacts
  <2>. QED  BY <1>3, <2>1, <2>2
<1>. QED  BY <1>1, <1>2, <1>3

(* Every step keeps the inductive invariant *)
LEMMA StepInv == IInv /\ [Next]_vars => IInv'
<1>. SUFFICES ASSUME IInv, [Next]_vars  PROVE IInv'
  OBVIOUS
<1>. USE DEF IInv
<1>1. ASSUME NEW k \in Keys, Add(k)  PROVE IInv'
  <2>1. Enqueue(k) /\ UNCHANGED <<processing, waiting, shuttingDown, requeued, pc, key, owing, failures>>
    BY <1>1 DEF Add
  <2>2. unseen' = IF shuttingDown THEN unseen ELSE unseen \cup {k}
    BY <1>1 DEF Add
  <2>. QED  BY <2>1, <2>2, EnqueueFacts, SMTT(30) DEF TypeOK, NothingIsLost, QueuedOnce, RequeuedIsExact
<1>2. ASSUME NEW k \in Keys, DelayOver(k)  PROVE IInv'
  <2>1. /\ Enqueue(k) /\ ~shuttingDown /\ waiting' = waiting \ {k}
        /\ UNCHANGED <<processing, shuttingDown, requeued, pc, key, unseen, owing, failures>>
    BY <1>2 DEF DelayOver, history
  <2>. QED  BY <2>1, EnqueueFacts, SMTT(30) DEF TypeOK, NothingIsLost, QueuedOnce, RequeuedIsExact
<1>3. CASE Stop
  BY <1>3 DEF Stop, history, TypeOK, NothingIsLost, QueuedOnce, RequeuedIsExact
<1>4. CASE Get
  <2>. DEFINE h == Head(queue)
  <2>1. /\ h \in Keys
        /\ Tail(queue) \in Seq(Keys)
        /\ ToSet(queue) = ToSet(Tail(queue)) \cup {h}
        /\ IsInjective(Tail(queue)) /\ h \notin ToSet(Tail(queue))
    BY <1>4, TailFacts DEF Get, TypeOK, QueuedOnce
  <2>2. /\ pc = "get" /\ pc' = "reconcile" /\ key' = h /\ queue' = Tail(queue)
        /\ processing' = processing \cup {h} /\ dirty' = dirty \ {h}
        /\ unseen' = unseen \ {h} /\ owing' = owing \ {h}
        /\ UNCHANGED <<waiting, shuttingDown, requeued, failures>>
    BY <1>4 DEF Get
  <2>. HIDE DEF h
  <2>3. TypeOK'
    BY <2>1, <2>2 DEF TypeOK
  <2>4. NothingIsLost'
    BY <2>2 DEF NothingIsLost
  <2>5. QueuedOnce'
    BY <2>1, <2>2 DEF QueuedOnce
  <2>6. RequeuedIsExact'
    BY <2>2 DEF RequeuedIsExact
  <2>. QED  BY <2>2, <2>3, <2>4, <2>5, <2>6
<1>5. CASE Exit
  BY <1>5 DEF Exit, workQueue, history, TypeOK, NothingIsLost, QueuedOnce, RequeuedIsExact
<1>6. CASE ReconcileOk
  <2>1. /\ pc = "reconcile" /\ pc' = "done" /\ requeued' = removeRequeued(key)
        /\ UNCHANGED <<queue, dirty, processing, waiting, shuttingDown, key, unseen, owing, failures>>
    BY <1>6 DEF ReconcileOk, workQueue, history
  <2>2. /\ requeued' \in Seq(Keys)
        /\ ToSet(requeued') = ToSet(requeued) \ {key}
        /\ IsInjective(requeued')
    BY <2>1, KeyHeld, RemoveRequeuedFacts DEF TypeOK, RequeuedIsExact
  <2>. QED  BY <2>1, <2>2 DEF TypeOK, NothingIsLost, QueuedOnce, RequeuedIsExact
<1>7. CASE ReconcileError
  <2>1. /\ pc = "reconcile" /\ pc' = "done" /\ requeued' = addRequeued(key)
        /\ waiting' = IF shuttingDown THEN waiting ELSE waiting \cup {key}
        /\ owing' = owing \cup {key} /\ failures' = failures + 1
        /\ UNCHANGED <<queue, dirty, processing, shuttingDown, key, unseen>>
    BY <1>7 DEF ReconcileError
  <2>2. /\ requeued' \in Seq(Keys)
        /\ ToSet(requeued') = ToSet(requeued) \cup {key}
        /\ IsInjective(requeued')
    BY <2>1, KeyHeld, AddRequeuedFacts DEF TypeOK, RequeuedIsExact
  <2>3. key \in Keys
    BY <2>1, KeyHeld
  <2>. QED  BY <2>1, <2>2, <2>3, SMTT(30) DEF TypeOK, NothingIsLost, QueuedOnce, RequeuedIsExact
<1>8. CASE Done
  <2>1. /\ pc = "done" /\ pc' = "get" /\ key' = NoKey
        /\ processing' = processing \ {key}
        /\ queue' = IF key \in dirty THEN Append(queue, key) ELSE queue
        /\ UNCHANGED <<dirty, waiting, shuttingDown, requeued, unseen, owing, failures>>
    BY <1>8 DEF Done, history
  <2>2. key \in Keys /\ processing = {key} /\ processing' = {} /\ key \notin ToSet(queue)
    BY <2>1, KeyHeld DEF QueuedOnce
  <2>3. /\ queue' \in Seq(Keys)
        /\ ToSet(queue') = IF key \in dirty THEN ToSet(queue) \cup {key} ELSE ToSet(queue)
        /\ IsInjective(queue')
    <3>1. queue \in Seq(Keys) /\ IsInjective(queue)
      BY DEF TypeOK, QueuedOnce
    <3>2. CASE key \in dirty
      <4>1. queue' = Append(queue, key)
        BY <2>1, <3>2
      <4>. QED  BY <2>2, <3>1, <3>2, <4>1, AppendFacts, SMTT(30)
    <3>3. CASE key \notin dirty
      BY <2>1, <3>1, <3>3
    <3>. QED  BY <3>2, <3>3
  <2>. QED  BY <2>1, <2>2, <2>3 DEF TypeOK, NothingIsLost, QueuedOnce, RequeuedIsExact
<1>9. CASE UNCHANGED vars
  BY <1>9 DEF vars, workQueue, history, TypeOK, NothingIsLost, QueuedOnce, RequeuedIsExact
<1>. QED  BY <1>1, <1>2, <1>3, <1>4, <1>5, <1>6, <1>7, <1>8, <1>9 DEF Next

(***************************************************************************)
(* For every set of keys and every number of failures: the work queue and  *)
(* the list of requeued keys of processItem, Add and the retries satisfy   *)
(* the inductive invariant.                                                *)
(***************************************************************************)
THEOREM Invariance == Spec => []IInv
<1>1. Init => IInv
  <2>1. IsInjective(<<>>) /\ ToSet(<<>>) = {} /\ <<>> \in Seq(Keys)
    BY SMTT(30) DEF IsInjective, ToSet
  <2>2. Init => TypeOK
    <3>1. Init => queue \in Seq(Keys) /\ requeued \in Seq(Keys)
      BY <2>1 DEF Init
    <3>2. Init => failures \in Nat
      BY SMTT(30) DEF Init
    <3>. QED  BY <3>1, <3>2 DEF Init, TypeOK
  <2>3. Init => QueuedOnce
    BY <2>1 DEF Init, QueuedOnce
  <2>4. Init => RequeuedIsExact
    BY <2>1 DEF Init, RequeuedIsExact
  <2>. QED  BY <2>2, <2>3, <2>4 DEF Init, IInv, NothingIsLost
<1>. QED  BY <1>1, StepInv, PTL DEF Spec

(***************************************************************************)
(* No change that a handler adds and no failed reconciliation is dropped   *)
(* by the queue, however Add, retries and the goroutine interleave.        *)
(***************************************************************************)
THEOREM Kept == Spec => []NothingIsLost
BY Invariance, PTL DEF IInv

(***************************************************************************)
(* No key is queued twice, and none is queued while it is being processed. *)
(***************************************************************************)
THEOREM Once == Spec => []QueuedOnce
BY Invariance, PTL DEF IInv

(* The length of Queue.requeued, the metric, counts the failing keys. *)
THEOREM RequeuedMetric == Spec => []RequeuedIsExact
BY Invariance, PTL DEF IInv

-----------------------------------------------------------------------------
(***************************************************************************)
(* Every step of the queue is a step of the promise or none: Add and a     *)
(* failure owe, Get starts, reconcileFunc's return ends, and the end of a  *)
(* delay, Done and Exit are invisible.                                     *)
(***************************************************************************)
LEMMA StepImplements == IInv /\ [Next]_vars => [R!Next]_R!vars
<1>. SUFFICES ASSUME IInv, [Next]_vars  PROVE R!Next \/ UNCHANGED R!vars
  OBVIOUS
<1>. USE QueueAssumption DEF owed, running, R!vars
<1>1. ASSUME NEW k \in Keys, Add(k)  PROVE R!Owe(k) \/ UNCHANGED R!vars
  <2>1. /\ dirty' = IF shuttingDown THEN dirty ELSE dirty \cup {k}
        /\ UNCHANGED <<waiting, shuttingDown, pc, key>>
    BY <1>1, EnqueueFacts DEF Add
  <2>. QED  BY <2>1 DEF R!Owe
<1>2. ASSUME NEW k \in Keys, DelayOver(k)  PROVE UNCHANGED R!vars
  <2>1. /\ k \in waiting /\ ~shuttingDown /\ waiting' = waiting \ {k}
        /\ dirty' = dirty \cup {k}
        /\ UNCHANGED <<shuttingDown, pc, key>>
    BY <1>2, EnqueueFacts DEF DelayOver
  <2>. QED  BY <2>1
<1>3. ASSUME Stop  PROVE R!Stop
  BY <1>3 DEF Stop, R!Stop
<1>4. ASSUME Get  PROVE \E k \in Keys : R!Start(k)
  <2>1. Head(queue) \in Keys /\ Head(queue) \in dirty
    BY <1>4, TailFacts DEF Get, IInv, TypeOK, QueuedOnce
  <2>2. R!Start(Head(queue))
    BY <1>4, <2>1 DEF Get, R!Start
  <2>. QED  BY <2>1, <2>2
<1>5. ASSUME Exit  PROVE UNCHANGED R!vars
  BY <1>5 DEF Exit, workQueue
<1>6. ASSUME ReconcileOk  PROVE R!Succeed
  BY <1>6, KeyHeld DEF ReconcileOk, workQueue, R!Succeed
<1>7. ASSUME ReconcileError  PROVE R!Fail
  BY <1>7, KeyHeld DEF ReconcileError, R!Fail
<1>8. ASSUME Done  PROVE UNCHANGED R!vars
  BY <1>8 DEF Done
<1>9. ASSUME UNCHANGED vars  PROVE UNCHANGED R!vars
  BY <1>9 DEF vars, workQueue
<1>. QED  BY <1>1, <1>2, <1>3, <1>4, <1>5, <1>6, <1>7, <1>8, <1>9 DEF Next, R!Next

(***************************************************************************)
(* The queue keeps the promise of ReconcileSpec: a key that is added is    *)
(* owed a reconciliation that starts afterwards, one runs at a time, and a *)
(* failed one is owed again until the queue is stopped.                    *)
(***************************************************************************)
THEOREM Implements == Spec => ImplementsReconcileSpec
<1>1. Init => R!Init
  BY DEF Init, R!Init, owed, running
<1>. QED  BY <1>1, Invariance, StepImplements, PTL DEF Spec, ImplementsReconcileSpec, R!Spec

=============================================================================

---------------------------- MODULE DBLockProofs ----------------------------
(***************************************************************************)
(* Iterators and db.mu, for any number of goroutines and keys.             *)
(***************************************************************************)
EXTENDS DBLock, FiniteSetTheorems, TLAPS

-----------------------------------------------------------------------------
(***************************************************************************)
(* Keys in order.                                                          *)
(***************************************************************************)
Below(S, k) == {m \in S : m < k}

\* A larger key has more keys of the set below it.
LEMMA BelowGrows ==
    ASSUME NEW S \in SUBSET Nat, IsFiniteSet(S), NEW k \in S, NEW l \in S, k < l
    PROVE  Cardinality(Below(S, k)) + 1 <= Cardinality(Below(S, l))
<1>1. IsFiniteSet(Below(S, k)) /\ IsFiniteSet(Below(S, l))
  <2>1. Below(S, k) \in SUBSET S /\ Below(S, l) \in SUBSET S
    BY DEF Below
  <2> QED
    BY <2>1, FS_Subset
<1>2. k \notin Below(S, k) /\ Below(S, k) \cup {k} \in SUBSET Below(S, l)
  <2>1. k \in Nat /\ l \in Nat
    OBVIOUS
  <2>2. \A m \in S : m \in Nat /\ (m < k => m < l) /\ ~(k < k)
    BY <2>1
  <2> QED
    BY <2>2 DEF Below
<1>3. Cardinality(Below(S, k) \cup {k}) = Cardinality(Below(S, k)) + 1
  BY <1>1, <1>2, FS_AddElement
<1>4. Cardinality(Below(S, k) \cup {k}) <= Cardinality(Below(S, l))
  BY <1>1, <1>2, FS_Subset
<1> QED
  BY <1>3, <1>4

\* The places of the keys in the order are the numbers from 1 on, each taken once.
LEMMA Places ==
    ASSUME NEW S \in SUBSET Nat, IsFiniteSet(S)
    PROVE  /\ Cardinality(S) \in Nat
           /\ \A k \in S : Cardinality(Below(S, k)) \in 0 .. Cardinality(S) - 1
           /\ \A i \in 1 .. Cardinality(S) : \E k \in S : Cardinality(Below(S, k)) = i - 1
<1> DEFINE n == Cardinality(S)
           r == [k \in S |-> Cardinality(Below(S, k)) + 1]
<1>1. n \in Nat
  BY FS_CardinalityType
<1>2. ASSUME NEW k \in S PROVE Cardinality(Below(S, k)) \in 0 .. n - 1
  <2>1. IsFiniteSet(S \ {k}) /\ Cardinality(S \ {k}) = n - 1
    BY FS_RemoveElement
  <2>2. Below(S, k) \in SUBSET (S \ {k})
    BY DEF Below
  <2>3. IsFiniteSet(Below(S, k)) /\ Cardinality(Below(S, k)) <= n - 1
    BY <2>1, <2>2, FS_Subset
  <2>4. Cardinality(Below(S, k)) \in Nat
    BY <2>3, FS_CardinalityType
  <2> QED
    BY <1>1, <2>3, <2>4
<1>3. r \in [S -> 1 .. n]
  BY <1>1, <1>2
<1>4. ASSUME NEW k \in S, NEW l \in S, r[k] = r[l] PROVE k = l
  <2>1. Cardinality(Below(S, k)) = Cardinality(Below(S, l))
    BY <1>1, <1>2, <1>4
  <2>2. ~(k < l) /\ ~(l < k)
    BY <1>2, <2>1, BelowGrows
  <2> QED
    BY <2>2
<1>5. r \in Injection(S, 1 .. n)
  BY <1>3, <1>4 DEF Injection, IsInjective
<1>6. IsFiniteSet(1 .. n) /\ Cardinality(1 .. n) = n
  BY <1>1, FS_Interval
<1>7. r \in Surjection(S, 1 .. n)
  BY <1>5, <1>6, FS_Injection
<1>8. \A i \in 1 .. n : \E k \in S : r[k] = i
  BY <1>7 DEF Surjection
<1>9. ASSUME NEW i \in 1 .. n PROVE \E k \in S : Cardinality(Below(S, k)) = i - 1
  <2>1. PICK k \in S : r[k] = i
    BY <1>8
  <2>2. Cardinality(Below(S, k)) + 1 = i /\ Cardinality(Below(S, k)) \in Nat
    BY <1>2, <2>1
  <2> QED
    BY <1>1, <2>2
<1> QED
  BY <1>1, <1>2, <1>9

\* InOrder lists the keys of a set, each once, in ascending order.
LEMMA InOrderProperty ==
    ASSUME NEW S \in SUBSET Nat, IsFiniteSet(S)
    PROVE  /\ Cardinality(S) \in Nat /\ DOMAIN InOrder(S) = 1 .. Cardinality(S)
           /\ \A i \in 1 .. Cardinality(S) : InOrder(S)[i] \in S
           /\ \A i, j \in 1 .. Cardinality(S) : i < j => InOrder(S)[i] < InOrder(S)[j]
           /\ \A k \in S : \E i \in 1 .. Cardinality(S) : InOrder(S)[i] = k
<1> DEFINE n == Cardinality(S)
           a == InOrder(S)
           b == [k \in S |-> Cardinality(Below(S, k))]
<1>1. n \in Nat /\ DOMAIN a = 1 .. n
  BY Places DEF InOrder
<1>2. ASSUME NEW i \in 1 .. n PROVE a[i] \in S /\ b[a[i]] = i - 1
  <2>1. a[i] = CHOOSE k \in S : b[k] = i - 1
    BY DEF InOrder, Below
  <2>2. \E k \in S : b[k] = i - 1
    BY Places
  <2> QED
    BY <2>1, <2>2
<1>3. \A k \in S : b[k] \in 0 .. n - 1
  BY Places
<1>4. \A k, l \in S : k < l => b[k] + 1 <= b[l]
  BY BelowGrows
<1> HIDE DEF n, a, b
<1>5. ASSUME NEW i \in 1 .. n, NEW j \in 1 .. n, i < j PROVE a[i] < a[j]
  <2>1. a[i] \in S /\ a[j] \in S /\ b[a[i]] = i - 1 /\ b[a[j]] = j - 1
    BY <1>2
  <2>2. a[j] # a[i]
    BY <1>1, <1>5, <2>1
  <2>3. a[j] < a[i] => (j - 1) + 1 <= i - 1
    BY <1>4, <2>1
  <2>4. ~(a[j] < a[i])
    BY <1>1, <1>5, <2>3
  <2>5. a[i] \in Nat /\ a[j] \in Nat
    BY <2>1
  <2> QED
    BY <2>2, <2>4, <2>5
<1>6. ASSUME NEW k \in S PROVE \E i \in 1 .. n : a[i] = k
  <2> DEFINE i == b[k] + 1
  <2>1. i \in 1 .. n
    BY <1>1, <1>3
  <2>2. a[i] \in S /\ b[a[i]] = b[k]
    BY <1>1, <1>2, <1>3, <2>1
  <2>3. b[k] \in Nat /\ (a[i] < k \/ k < a[i] => b[k] + 1 <= b[k])
    <3>1. a[i] < k => b[a[i]] + 1 <= b[k]
      BY <1>4, <2>2
    <3>2. k < a[i] => b[k] + 1 <= b[a[i]]
      BY <1>4, <2>2
    <3>3. b[k] \in Nat
      BY <1>1, <1>3
    <3> QED
      BY <2>2, <3>1, <3>2, <3>3
  <2>4. a[i] \in Nat /\ k \in Nat
    BY <2>2
  <2>5. a[i] = k
    BY <2>3, <2>4
  <2> QED
    BY <2>1, <2>5
<1> QED
  BY <1>1, <1>2, <1>5, <1>6 DEF n, a

\* sort.Search: the place behind all smaller keys is where the keys that are not smaller begin.
LEMMA SearchPlace ==
    ASSUME NEW S \in SUBSET Nat, IsFiniteSet(S), NEW t \in Nat
    PROVE  LET a == InOrder(S)
               p == 1 + Cardinality({i \in DOMAIN a : a[i] < t})
           IN  p \in Nat \ {0} /\ \A j \in DOMAIN a : j >= p <=> a[j] >= t
<1> DEFINE a == InOrder(S)
           n == Cardinality(S)
           L == {i \in 1 .. n : a[i] < t}
<1>1. /\ n \in Nat /\ DOMAIN a = 1 .. n /\ \A i \in 1 .. n : a[i] \in S
      /\ \A i, j \in 1 .. n : i < j => a[i] < a[j]
  BY InOrderProperty
<1>2. \A i \in 1 .. n : a[i] \in Nat
  BY <1>1
<1> HIDE DEF a, n
<1>3. IsFiniteSet(L) /\ Cardinality(L) \in Nat
  <2>1. IsFiniteSet(1 .. n)
    BY <1>1, FS_Interval
  <2>2. IsFiniteSet(L)
    BY <2>1, FS_Subset
  <2> QED
    BY <2>2, FS_CardinalityType
<1>4. ASSUME NEW j \in 1 .. n, a[j] < t PROVE j <= Cardinality(L)
  <2>1. IsFiniteSet(1 .. j) /\ Cardinality(1 .. j) = j
    BY <1>1, FS_Interval
  <2>2. ASSUME NEW i \in 1 .. j PROVE i \in L
    <3>1. i \in 1 .. n /\ a[i] \in Nat /\ a[j] \in Nat /\ (i < j => a[i] < a[j])
      BY <1>1, <1>2
    <3>2. i = j \/ i < j
      BY <1>1
    <3> QED
      BY <1>4, <3>1, <3>2
  <2>3. 1 .. j \in SUBSET L
    BY <2>2
  <2>4. Cardinality(1 .. j) <= Cardinality(L)
    BY <1>3, <2>3, FS_Subset
  <2> QED
    BY <2>1, <2>4
<1>5. ASSUME NEW j \in 1 .. n, ~(a[j] < t) PROVE Cardinality(L) <= j - 1
  <2>1. IsFiniteSet(1 .. j - 1) /\ Cardinality(1 .. j - 1) = j - 1
    BY <1>1, FS_Interval
  <2>2. ASSUME NEW i \in L PROVE i \in 1 .. j - 1
    <3>1. i \in 1 .. n /\ a[i] < t /\ a[i] \in Nat /\ a[j] \in Nat /\ (j < i => a[j] < a[i])
      BY <1>1, <1>2
    <3>2. ~(j < i) /\ i # j
      BY <1>5, <3>1
    <3> QED
      BY <1>1, <3>1, <3>2
  <2>3. L \in SUBSET (1 .. j - 1)
    BY <2>2
  <2>4. Cardinality(L) <= Cardinality(1 .. j - 1)
    BY <2>1, <2>3, FS_Subset
  <2> QED
    BY <2>1, <2>4
<1> DEFINE c == Cardinality(L)
<1>6. c \in Nat /\ \A j \in 1 .. n : (a[j] < t => j <= c) /\ (~(a[j] < t) => c <= j - 1)
  BY <1>3, <1>4, <1>5
<1>7. {i \in DOMAIN a : a[i] < t} = L
  BY <1>1
<1> HIDE DEF c, L
<1>8. \A j \in 1 .. n : j >= 1 + c <=> a[j] >= t
  <2> SUFFICES ASSUME NEW j \in 1 .. n PROVE j >= 1 + c <=> a[j] >= t
    OBVIOUS
  <2>1. a[j] \in Nat /\ j \in Nat /\ (a[j] < t => j <= c) /\ (~(a[j] < t) => c <= j - 1)
    BY <1>1, <1>2, <1>6
  <2> QED
    BY <1>6, <2>1
<1> DEFINE p == 1 + Cardinality({i \in DOMAIN a : a[i] < t})
<1>9. p = 1 + c
  BY <1>7 DEF c
<1> HIDE DEF p
<1>10. p \in Nat \ {0} /\ \A j \in DOMAIN a : j >= p <=> a[j] >= t
  BY <1>1, <1>6, <1>8, <1>9
<1> QED
  BY <1>10 DEF p, a

\* From a place on the list has the keys from some key on.
AheadOf(items, idx) == {items[i] : i \in {j \in DOMAIN items : idx # 0 /\ j >= idx}}

\* Where a seek finds its place, those are the keys that are not smaller.
LEMMA PlacedAt ==
    ASSUME NEW S \in SUBSET Nat, IsFiniteSet(S), NEW p \in Nat \ {0}, NEW k \in Nat,
           \A j \in DOMAIN InOrder(S) : j >= p <=> InOrder(S)[j] >= k
    PROVE  AheadOf(InOrder(S), IF p \in DOMAIN InOrder(S) THEN p ELSE 0) = {m \in S : m >= k}
<1> DEFINE a == InOrder(S)
           n == Cardinality(S)
           q == IF p \in DOMAIN a THEN p ELSE 0
<1>1. /\ n \in Nat /\ DOMAIN a = 1 .. n /\ \A i \in 1 .. n : a[i] \in S
      /\ \A m \in S : \E i \in 1 .. n : a[i] = m
  BY InOrderProperty
<1> HIDE DEF a, n
<1>2. \A j \in 1 .. n : j >= p <=> a[j] >= k
  BY <1>1 DEF a
<1>3. \A j \in 1 .. n : (q # 0 /\ j >= q) <=> j >= p
  BY <1>1
<1> HIDE DEF q
<1>4. AheadOf(a, q) = {a[i] : i \in {j \in 1 .. n : j >= p}}
  BY <1>1, <1>3 DEF AheadOf
<1>5. {a[i] : i \in {j \in 1 .. n : j >= p}} = {m \in S : m >= k}
  BY <1>1, <1>2
<1> QED
  BY <1>4, <1>5 DEF a, q

-----------------------------------------------------------------------------
(***************************************************************************)
(* db.mu.  The count of the mutex is never below the number of goroutines  *)
(* that are in a reading call or have an iterator open (it may be above:   *)
(* an iterator that is lost keeps its lock), and while a writer is in it   *)
(* is 0.                                                                   *)
(***************************************************************************)
Iterators ==
    {it \in [items : {InOrder(S) : S \in SUBSET Keys}, idx : Nat, open : BOOLEAN] :
        it.idx \in {0} \cup DOMAIN it.items}

DBType ==
    /\ readers \in Nat
    /\ pc \in [Goroutine -> {"out", "reading", "rwait", "wwait", "drain", "writing"}]
    /\ call \in [Goroutine -> ReadCalls \cup WriteCalls \cup {Returned}]
    /\ store \in SUBSET Keys
    /\ closed \in BOOLEAN
    /\ iter \in [Goroutine -> Iterators]
    /\ from \in [Goroutine -> Nat]

Reading == {g \in Goroutine : pc[g] = "reading"}

Iterating == {g \in Goroutine : iter[g].open}

OneWriter == \A g \in Goroutine : pc[g] \in {"drain", "writing"} => writer = g

WriterAlone == (\E g \in Goroutine : pc[g] = "writing") => readers = 0

ReadersCounted == Cardinality(Reading) + Cardinality(Iterating) <= readers

LockInv == DBType /\ OneWriter /\ WriterAlone /\ ReadersCounted

\* Sets of goroutines are finite.
LEMMA GoroutineSets ==
    ASSUME NEW G \in SUBSET Goroutine
    PROVE  /\ IsFiniteSet(G) /\ Cardinality(G) \in Nat
           /\ \A g \in Goroutine : Cardinality(G \cup {g}) = IF g \in G THEN Cardinality(G) ELSE Cardinality(G) + 1
           /\ \A g \in Goroutine : Cardinality(G \ {g}) = IF g \in G THEN Cardinality(G) - 1 ELSE Cardinality(G)
           /\ \A g \in G : Cardinality(G) >= 1
           /\ Cardinality(G) = 0 => G = {}
<1>1. IsFiniteSet(G) /\ Cardinality(G) \in Nat
  <2>1. IsFiniteSet(G)
    BY GoroutineAssumption, FS_Subset
  <2> QED
    BY <2>1, FS_CardinalityType
<1>2. Cardinality(G) = 0 => G = {}
  BY <1>1, FS_EmptySet
<1>3. ASSUME NEW g \in Goroutine
      PROVE  /\ Cardinality(G \cup {g}) = IF g \in G THEN Cardinality(G) ELSE Cardinality(G) + 1
             /\ Cardinality(G \ {g}) = IF g \in G THEN Cardinality(G) - 1 ELSE Cardinality(G)
  BY <1>1, FS_AddElement, FS_RemoveElement
<1>4. \A g \in G : Cardinality(G) >= 1
  BY <1>1, <1>2
<1> QED
  BY <1>1, <1>2, <1>3, <1>4

\* The counts and what they say.
LEMMA Counts ==
    ASSUME LockInv
    PROVE  /\ Reading \in SUBSET Goroutine /\ Iterating \in SUBSET Goroutine
           /\ Cardinality(Reading) \in Nat /\ Cardinality(Iterating) \in Nat
           /\ Cardinality(Reading) + Cardinality(Iterating) <= readers
           /\ \A g \in Reading \cup Iterating : readers >= 1 /\ \A h \in Goroutine : pc[h] # "writing"
<1>1. Reading \in SUBSET Goroutine /\ Iterating \in SUBSET Goroutine
  BY DEF Reading, Iterating
<1>2. /\ Cardinality(Reading) \in Nat /\ Cardinality(Iterating) \in Nat
      /\ \A g \in Reading : Cardinality(Reading) >= 1
      /\ \A g \in Iterating : Cardinality(Iterating) >= 1
  BY <1>1, GoroutineSets
<1>3. Cardinality(Reading) + Cardinality(Iterating) <= readers /\ readers \in Nat
  BY DEF LockInv, ReadersCounted, DBType
<1>4. ASSUME NEW g \in Reading \cup Iterating PROVE readers >= 1
  BY <1>2, <1>3
<1>5. readers >= 1 => \A h \in Goroutine : pc[h] # "writing"
  BY DEF LockInv, WriterAlone
<1> QED
  BY <1>1, <1>2, <1>3, <1>4, <1>5

\* The iterators that the code makes and moves are such.
LEMMA MakesIterators ==
    /\ NoIter \in Iterators /\ NoIter.open = FALSE
    /\ \A S \in SUBSET Keys : [items |-> InOrder(S), idx |-> 0, open |-> TRUE] \in Iterators
    /\ \A it \in Iterators, i \in Nat :
          [it EXCEPT !.idx = IF i \in DOMAIN it.items THEN i ELSE 0] \in Iterators
<1>1. InOrder({}) = << >>
  BY FS_EmptySet DEF InOrder
<1>2. NoIter \in Iterators /\ NoIter.open = FALSE
  BY <1>1 DEF NoIter, Iterators
<1>3. \A S \in SUBSET Keys : [items |-> InOrder(S), idx |-> 0, open |-> TRUE] \in Iterators
  BY DEF Iterators
<1>4. ASSUME NEW it \in Iterators, NEW i \in Nat
      PROVE  [it EXCEPT !.idx = IF i \in DOMAIN it.items THEN i ELSE 0] \in Iterators
  BY DEF Iterators
<1> QED
  BY <1>2, <1>3, <1>4

\* Nobody has called.
LEMMA LockInit == DBInit => LockInv
<1> SUFFICES ASSUME DBInit PROVE LockInv
  OBVIOUS
<1>1. DBType
  <2>1. iter \in [Goroutine -> Iterators]
    BY MakesIterators DEF DBInit
  <2>2. call \in [Goroutine -> ReadCalls \cup WriteCalls \cup {Returned}]
    BY DEF DBInit
  <2>3. from \in [Goroutine -> Nat]
    BY KeyAssumption DEF DBInit
  <2> QED
    BY <2>1, <2>2, <2>3 DEF DBInit, DBType
<1>2. Reading = {} /\ Iterating = {}
  BY MakesIterators DEF DBInit, Reading, Iterating
<1>3. ReadersCounted
  BY <1>2, FS_EmptySet DEF DBInit, ReadersCounted
<1> QED
  BY <1>1, <1>3 DEF DBInit, LockInv, OneWriter, WriterAlone

\* A step that leaves the count and the iterators alone keeps LockInv if it puts nobody among the
\* readers and lets a writer in only when there are none.
LEMMA PcOnly ==
    ASSUME LockInv, NEW g \in Goroutine, UNCHANGED <<readers, dbVars, iterVars>>,
           NEW p \in {"rwait", "wwait", "drain", "writing"}, pc' = [pc EXCEPT ![g] = p],
           call' \in [Goroutine -> ReadCalls \cup WriteCalls \cup {Returned}], pc[g] # "reading",
           OneWriter', p = "writing" => readers = 0
    PROVE  LockInv'
<1>1. DBType'
  BY DEF LockInv, DBType, dbVars, iterVars
<1>2. Reading' = Reading
  BY DEF LockInv, DBType, Reading
<1>3. Iterating' = Iterating
  BY DEF iterVars, Iterating
<1>4. ReadersCounted'
  BY <1>2, <1>3 DEF LockInv, ReadersCounted
<1>5. WriterAlone'
  BY DEF LockInv, DBType, WriterAlone
<1> QED
  BY <1>1, <1>4, <1>5 DEF LockInv

\* RLock: one more reader, and one more in the count.
LEMMA LockRead ==
    ASSUME LockInv, NEW g \in Goroutine, Read(g)
    PROVE  LockInv'
<1>1. call' \in [Goroutine -> ReadCalls \cup WriteCalls \cup {Returned}]
  BY DEF Read, LockInv, DBType
<1>2. CASE writer = Nobody
  <2>1. pc' = [pc EXCEPT ![g] = "reading"] /\ readers' = readers + 1
    BY <1>2 DEF Read
  <2>2. DBType'
    BY <1>1, <2>1 DEF Read, LockInv, DBType, dbVars, iterVars
  <2>3. \A h \in Goroutine : pc[h] \notin {"drain", "writing"}
    BY <1>2, GoroutineAssumption DEF LockInv, OneWriter
  <2>4. \A h \in Goroutine : pc'[h] \notin {"drain", "writing"}
    BY <2>1, <2>3 DEF LockInv, DBType
  <2>5. OneWriter' /\ WriterAlone'
    BY <2>4 DEF OneWriter, WriterAlone
  <2>6. Reading' = Reading \cup {g} /\ g \notin Reading
    BY <2>1 DEF Read, LockInv, DBType, Reading
  <2>7. Iterating' = Iterating
    BY DEF Read, iterVars, Iterating
  <2>8. Cardinality(Reading') = Cardinality(Reading) + 1
    BY <2>6, Counts, GoroutineSets
  <2>9. ReadersCounted'
    BY <2>1, <2>7, <2>8, Counts DEF ReadersCounted, LockInv, DBType
  <2> QED
    BY <2>2, <2>5, <2>9 DEF LockInv
<1>3. CASE writer # Nobody
  <2>1. pc' = [pc EXCEPT ![g] = "rwait"] /\ UNCHANGED <<readers, writer, dbVars, iterVars>> /\ pc[g] = "out"
    BY <1>3 DEF Read
  <2>2. OneWriter'
    BY <2>1 DEF LockInv, DBType, OneWriter
  <2> QED
    BY <1>1, <2>1, <2>2, PcOnly
<1> QED
  BY <1>2, <1>3

\* Lock: a writer comes, is alone in waiting for the readers, and is in when there are none.
LEMMA LockWrite ==
    ASSUME LockInv, NEW g \in Goroutine, Write(g) \/ Announce(g) \/ Enter(g)
    PROVE  LockInv'
<1>1. CASE Write(g)
  <2>1. call' \in [Goroutine -> ReadCalls \cup WriteCalls \cup {Returned}]
    BY <1>1 DEF Write, LockInv, DBType
  <2>2. pc' = [pc EXCEPT ![g] = "wwait"] /\ UNCHANGED <<readers, writer, dbVars, iterVars>> /\ pc[g] = "out"
    BY <1>1 DEF Write
  <2>3. OneWriter'
    BY <2>2 DEF LockInv, DBType, OneWriter
  <2> QED
    BY <2>1, <2>2, <2>3, PcOnly
<1>2. CASE Announce(g)
  <2>1. /\ pc' = [pc EXCEPT ![g] = "drain"] /\ UNCHANGED <<readers, call, dbVars, iterVars>>
        /\ pc[g] = "wwait" /\ writer = Nobody /\ writer' = g
    BY <1>2 DEF Announce
  <2>2. \A h \in Goroutine : pc[h] \notin {"drain", "writing"}
    BY <2>1, GoroutineAssumption DEF LockInv, OneWriter
  <2>3. OneWriter'
    BY <2>1, <2>2 DEF LockInv, DBType, OneWriter
  <2>4. call' \in [Goroutine -> ReadCalls \cup WriteCalls \cup {Returned}]
    BY <2>1 DEF LockInv, DBType
  <2> QED
    BY <2>1, <2>3, <2>4, PcOnly
<1>3. CASE Enter(g)
  <2>1. /\ pc' = [pc EXCEPT ![g] = "writing"] /\ UNCHANGED <<readers, writer, call, dbVars, iterVars>>
        /\ pc[g] = "drain" /\ readers = 0
    BY <1>3 DEF Enter
  <2>2. OneWriter'
    BY <2>1 DEF LockInv, DBType, OneWriter
  <2>3. call' \in [Goroutine -> ReadCalls \cup WriteCalls \cup {Returned}]
    BY <2>1 DEF LockInv, DBType
  <2> QED
    BY <2>1, <2>2, <2>3, PcOnly
<1> QED
  BY <1>1, <1>2, <1>3

\* RUnlock at the end of Get.
LEMMA LockGet ==
    ASSUME LockInv, NEW g \in Goroutine, GetReturns(g)
    PROVE  LockInv'
<1>1. /\ pc[g] = "reading" /\ pc' = [pc EXCEPT ![g] = "out"] /\ readers' = readers - 1
      /\ UNCHANGED <<writer, dbVars, iterVars>>
  BY DEF GetReturns
<1>2. g \in Reading
  BY <1>1 DEF Reading
<1>3. readers >= 1 /\ \A h \in Goroutine : pc[h] # "writing"
  BY <1>2, Counts
<1>4. DBType'
  BY <1>1, <1>3 DEF GetReturns, LockInv, DBType, dbVars, iterVars
<1>5. OneWriter' /\ WriterAlone'
  BY <1>1, <1>3 DEF LockInv, DBType, OneWriter, WriterAlone
<1>6. Reading' = Reading \ {g}
  BY <1>1 DEF LockInv, DBType, Reading
<1>7. Iterating' = Iterating
  BY <1>1 DEF iterVars, Iterating
<1>8. Cardinality(Reading') = Cardinality(Reading) - 1
  BY <1>2, <1>6, Counts, GoroutineSets
<1>9. ReadersCounted'
  BY <1>1, <1>7, <1>8, Counts DEF ReadersCounted, LockInv, DBType
<1> QED
  BY <1>4, <1>5, <1>9 DEF LockInv

\* While a writer is in, nobody reads and no iterator is open.
LEMMA NoIterators ==
    ASSUME LockInv, NEW g \in Goroutine, pc[g] = "writing"
    PROVE  readers = 0 /\ Reading = {} /\ Iterating = {}
<1>1. readers = 0
  BY DEF LockInv, WriterAlone
<1>2. Cardinality(Reading) = 0 /\ Cardinality(Iterating) = 0
  BY <1>1, Counts
<1> QED
  BY <1>1, <1>2, Counts, GoroutineSets

\* Unlock lets the readers in that wait.
LEMMA LockUnlock ==
    ASSUME LockInv, NEW g \in Goroutine, WriteReturns(g)
    PROVE  LockInv'
<1> DEFINE waiting == {h \in Goroutine : pc[h] = "rwait"}
<1>1. /\ pc[g] = "writing" /\ writer' = Nobody /\ readers' = readers + Cardinality(waiting)
      /\ pc' = [h \in Goroutine |->
                   CASE h = g -> "out" [] h \in waiting -> "reading" [] OTHER -> pc[h]]
      /\ UNCHANGED iterVars
  BY DEF WriteReturns, Unlock
<1>2. readers = 0 /\ Reading = {} /\ Iterating = {}
  BY <1>1, NoIterators
<1>3. Cardinality(waiting) \in Nat
  BY GoroutineSets
<1>4. store' \in SUBSET Keys
  <2>1. call[g] \in ReadCalls \cup WriteCalls \cup {Returned} /\ store \in SUBSET Keys
    BY DEF LockInv, DBType
  <2>2. call[g].op \in {"put", "delete"} => call[g].key \in Keys
    BY <2>1 DEF ReadCalls, WriteCalls, Returned
  <2> QED
    BY <2>1, <2>2 DEF WriteReturns
<1>5. closed' \in BOOLEAN
  BY DEF WriteReturns
<1>6. call' \in [Goroutine -> ReadCalls \cup WriteCalls \cup {Returned}]
  BY DEF WriteReturns, LockInv, DBType
<1>7. pc' \in [Goroutine -> {"out", "reading", "rwait", "wwait", "drain", "writing"}]
  BY <1>1 DEF LockInv, DBType
<1>8. DBType'
  BY <1>1, <1>2, <1>3, <1>4, <1>5, <1>6, <1>7 DEF LockInv, DBType, iterVars
<1>9. \A h \in Goroutine : pc'[h] \notin {"drain", "writing"}
  <2>1. \A h \in Goroutine : h # g => pc[h] \notin {"drain", "writing"}
    BY <1>1 DEF LockInv, OneWriter
  <2> QED
    BY <1>1, <2>1
<1>10. OneWriter' /\ WriterAlone'
  BY <1>9 DEF OneWriter, WriterAlone
<1>11. Reading' = waiting
  <2>1. \A h \in Goroutine : pc[h] # "reading"
    BY <1>2 DEF Reading
  <2>2. \A h \in Goroutine : pc'[h] = "reading" <=> h \in waiting
    BY <1>1, <2>1
  <2> QED
    BY <2>2 DEF Reading
<1>12. Iterating' = {}
  BY <1>1, <1>2 DEF iterVars, Iterating
<1>13. ReadersCounted'
  BY <1>1, <1>2, <1>3, <1>11, <1>12, FS_EmptySet DEF ReadersCounted
<1> QED
  BY <1>8, <1>10, <1>13 DEF LockInv

\* NewIterator: the lock of the call becomes the iterator's.
LEMMA LockNewIterator ==
    ASSUME LockInv, NEW g \in Goroutine, NewIterator(g)
    PROVE  LockInv'
<1>1. /\ pc[g] = "reading" /\ pc' = [pc EXCEPT ![g] = "out"] /\ UNCHANGED <<readers, writer, dbVars>>
      /\ call' = [call EXCEPT ![g] = Returned] /\ from' = [from EXCEPT ![g] = MaxKey + 1]
  BY DEF NewIterator
<1>2. PICK S \in SUBSET Keys :
         iter' = [iter EXCEPT ![g] = [items |-> InOrder(S), idx |-> 0, open |-> TRUE]]
  <2>1. Merged \in SUBSET SUBSET Keys
    BY DEF Merged, LockInv, DBType
  <2> QED
    BY <2>1 DEF NewIterator
<1>3. g \in Reading
  BY <1>1 DEF Reading
<1>4. iter' \in [Goroutine -> Iterators]
  BY <1>2, MakesIterators DEF LockInv, DBType
<1>5. DBType'
  <2>1. call' \in [Goroutine -> ReadCalls \cup WriteCalls \cup {Returned}]
    BY <1>1 DEF LockInv, DBType
  <2>2. from' \in [Goroutine -> Nat]
    BY <1>1, KeyAssumption DEF LockInv, DBType
  <2> QED
    BY <1>1, <1>4, <2>1, <2>2 DEF LockInv, DBType, dbVars
<1>6. OneWriter' /\ WriterAlone'
  BY <1>1 DEF LockInv, DBType, OneWriter, WriterAlone
<1>7. Reading' = Reading \ {g}
  BY <1>1 DEF LockInv, DBType, Reading
<1>8. Iterating' = Iterating \cup {g}
  BY <1>2 DEF LockInv, DBType, Iterating
<1>9. Cardinality(Reading') = Cardinality(Reading) - 1
  BY <1>3, <1>7, Counts, GoroutineSets
<1>10. Cardinality(Iterating') \in Nat /\ Cardinality(Iterating') <= Cardinality(Iterating) + 1
  BY <1>8, Counts, GoroutineSets
<1>11. ReadersCounted'
  BY <1>1, <1>9, <1>10, Counts DEF ReadersCounted, LockInv, DBType
<1> QED
  BY <1>5, <1>6, <1>11 DEF LockInv

\* Close gives the iterator's lock back.
LEMMA LockClose ==
    ASSUME LockInv, NEW g \in Goroutine, CloseIter(g)
    PROVE  LockInv'
<1>1. /\ iter[g].open /\ iter' = [iter EXCEPT ![g] = NoIter] /\ readers' = readers - 1
      /\ UNCHANGED <<writer, pc, call, dbVars>> /\ from' = [from EXCEPT ![g] = MaxKey + 1]
  BY DEF CloseIter, Using
<1>2. g \in Iterating
  BY <1>1 DEF Iterating
<1>3. readers >= 1 /\ \A h \in Goroutine : pc[h] # "writing"
  BY <1>2, Counts
<1>4. iter' \in [Goroutine -> Iterators]
  BY <1>1, MakesIterators DEF LockInv, DBType
<1>5. DBType'
  BY <1>1, <1>3, <1>4, KeyAssumption DEF LockInv, DBType, dbVars
<1>6. OneWriter' /\ WriterAlone'
  BY <1>1, <1>3 DEF LockInv, OneWriter, WriterAlone
<1>7. Reading' = Reading
  BY <1>1 DEF Reading
<1>8. Iterating' = Iterating \ {g}
  BY <1>1, MakesIterators DEF LockInv, DBType, Iterating
<1>9. Cardinality(Iterating') = Cardinality(Iterating) - 1
  BY <1>2, <1>8, Counts, GoroutineSets
<1>10. ReadersCounted'
  BY <1>1, <1>7, <1>9, Counts DEF ReadersCounted, LockInv, DBType
<1> QED
  BY <1>5, <1>6, <1>10 DEF LockInv

\* Moving an iterator touches no lock.
LEMMA LockMove ==
    ASSUME LockInv, NEW g \in Goroutine, NEW i \in Nat, NEW k \in Nat, MoveTo(g, i, k)
    PROVE  LockInv'
<1>1. /\ iter' = [iter EXCEPT ![g].idx = IF i \in DOMAIN iter[g].items THEN i ELSE 0]
      /\ from' = [from EXCEPT ![g] = k] /\ UNCHANGED <<readers, writer, pc, call, dbVars>>
  BY DEF MoveTo, muVars
<1>2. iter[g] \in Iterators /\ iter \in [Goroutine -> Iterators]
  BY DEF LockInv, DBType
<1>3. iter'[g] = [iter[g] EXCEPT !.idx = IF i \in DOMAIN iter[g].items THEN i ELSE 0]
  BY <1>1, <1>2
<1>4. iter' \in [Goroutine -> Iterators]
  <2>1. iter'[g] \in Iterators
    BY <1>2, <1>3, MakesIterators
  <2> QED
    BY <1>1, <1>2, <2>1
<1>5. DBType'
  BY <1>1, <1>4 DEF LockInv, DBType, dbVars
<1>6. OneWriter' /\ WriterAlone' /\ Reading' = Reading
  BY <1>1 DEF LockInv, OneWriter, WriterAlone, Reading
<1>7. Iterating' = Iterating
  <2>1. iter'[g].open = iter[g].open
    BY <1>2, <1>3 DEF Iterators
  <2> QED
    BY <1>1, <1>2, <2>1 DEF Iterating
<1>8. ReadersCounted'
  BY <1>1, <1>6, <1>7 DEF LockInv, ReadersCounted
<1> QED
  BY <1>5, <1>6, <1>8 DEF LockInv

-----------------------------------------------------------------------------
(***************************************************************************)
(* Iterators.  An iterator that is open has the items that are present     *)
(* now, since no writer has been in after NewIterator collected them, and  *)
(* stands where the keys from from[g] on begin.                            *)
(***************************************************************************)
Current(it, k) == it.items = InOrder(store) /\ AheadOf(it.items, it.idx) = {m \in store : m >= k}

SnapshotInv == ~closed => \A g \in Goroutine : iter[g].open => Current(iter[g], from[g])

\* Moving to a place where the keys from some key on begin.
LEMMA SnapshotMove ==
    ASSUME LockInv, SnapshotInv, NEW g \in Goroutine, iter[g].open,
           NEW i \in Nat \ {0}, NEW k \in Nat, MoveTo(g, i, k),
           ~closed => \A j \in DOMAIN InOrder(store) : j >= i <=> InOrder(store)[j] >= k
    PROVE  SnapshotInv'
<1>1. /\ iter' = [iter EXCEPT ![g].idx = IF i \in DOMAIN iter[g].items THEN i ELSE 0]
      /\ from' = [from EXCEPT ![g] = k] /\ UNCHANGED <<store, closed>>
  BY DEF MoveTo, dbVars
<1>2. iter \in [Goroutine -> Iterators] /\ from \in [Goroutine -> Nat] /\ store \in SUBSET Keys
  BY DEF LockInv, DBType
<1>3. store \in SUBSET Nat /\ IsFiniteSet(store)
  <2>1. IsFiniteSet(Keys) /\ Keys \in SUBSET Nat
    BY KeyAssumption, FS_Interval DEF Keys
  <2> QED
    BY <1>2, <2>1, FS_Subset
<1>4. iter'[g] = [iter[g] EXCEPT !.idx = IF i \in DOMAIN iter[g].items THEN i ELSE 0] /\ from'[g] = k
  BY <1>1, <1>2
<1>5. iter'[g].items = iter[g].items /\ iter'[g].idx = IF i \in DOMAIN iter[g].items THEN i ELSE 0
  BY <1>2, <1>4 DEF Iterators
<1>6. ASSUME ~closed PROVE Current(iter'[g], k)
  <2>1. iter[g].items = InOrder(store)
    BY <1>6 DEF SnapshotInv, Current
  <2>2. AheadOf(InOrder(store), IF i \in DOMAIN InOrder(store) THEN i ELSE 0) = {m \in store : m >= k}
    BY <1>3, <1>6, PlacedAt
  <2> QED
    BY <1>5, <2>1, <2>2 DEF Current
<1>7. ASSUME ~closed, NEW h \in Goroutine, h # g, iter'[h].open PROVE Current(iter'[h], from'[h])
  <2>1. iter'[h] = iter[h] /\ from'[h] = from[h]
    BY <1>1, <1>2, <1>7
  <2> QED
    BY <1>7, <2>1 DEF SnapshotInv
<1>8. ASSUME ~closed', NEW h \in Goroutine, iter'[h].open PROVE Current(iter[h], from[h])'
  <2>1. Current(iter'[h], from'[h])
    BY <1>1, <1>4, <1>6, <1>7, <1>8
  <2> QED
    BY <1>1, <2>1 DEF Current
<1> QED
  BY <1>8 DEF SnapshotInv

\* Every operation of an iterator places it where it should be.
LEMMA SnapshotUse ==
    ASSUME LockInv, SnapshotInv, NEW g \in Goroutine,
           SeekToFirst(g) \/ Next(g) \/ \E t \in Keys : Seek(g, t)
    PROVE  LockInv' /\ SnapshotInv'
<1>1. iter[g] \in Iterators /\ store \in SUBSET Keys /\ iter[g].open
  BY DEF LockInv, DBType, SeekToFirst, Next, Seek, Using
<1>2. Keys \in SUBSET Nat /\ \A k \in Keys : k >= 1
  BY KeyAssumption DEF Keys
<1>3. ASSUME NEW S \in SUBSET Keys PROVE S \in SUBSET Nat /\ IsFiniteSet(S)
  <2>1. IsFiniteSet(Keys)
    BY KeyAssumption, FS_Interval DEF Keys
  <2> QED
    BY <1>2, <2>1, FS_Subset
<1>4. ~closed => iter[g].items = InOrder(store)
  BY <1>1 DEF SnapshotInv, Current
<1>5. PICK S \in SUBSET Keys : iter[g].items = InOrder(S)
  BY <1>1 DEF Iterators
<1>6. /\ Cardinality(S) \in Nat /\ DOMAIN InOrder(S) = 1 .. Cardinality(S)
      /\ \A j \in DOMAIN InOrder(S) : InOrder(S)[j] \in S /\ InOrder(S)[j] \in Nat
      /\ \A i, j \in DOMAIN InOrder(S) : i < j => InOrder(S)[i] < InOrder(S)[j]
  <2>1. S \in SUBSET Nat /\ IsFiniteSet(S)
    BY <1>3
  <2>2. /\ Cardinality(S) \in Nat /\ DOMAIN InOrder(S) = 1 .. Cardinality(S)
        /\ \A j \in 1 .. Cardinality(S) : InOrder(S)[j] \in S
        /\ \A i, j \in 1 .. Cardinality(S) : i < j => InOrder(S)[i] < InOrder(S)[j]
    BY <2>1, InOrderProperty
  <2> QED
    BY <2>1, <2>2
<1>7. CASE SeekToFirst(g)
  <2>1. MoveTo(g, 1, 1)
    BY <1>7 DEF SeekToFirst
  <2>2. \A j \in DOMAIN InOrder(S) : j >= 1 <=> InOrder(S)[j] >= 1
    BY <1>2, <1>6
  <2> QED
    BY <1>1, <1>4, <1>5, <2>1, <2>2, LockMove, SnapshotMove
<1>8. CASE \E t \in Keys : Seek(g, t)
  <2>1. PICK t \in Keys : Seek(g, t)
    BY <1>8
  <2> DEFINE p == 1 + Cardinality({i \in DOMAIN InOrder(S) : InOrder(S)[i] < t})
  <2>2. t \in Nat
    BY <1>2
  <2>3. p \in Nat \ {0} /\ \A j \in DOMAIN InOrder(S) : j >= p <=> InOrder(S)[j] >= t
    BY <1>3, <2>2, SearchPlace
  <2>4. MoveTo(g, p, t)
    BY <1>5, <2>1 DEF Seek
  <2> HIDE DEF p
  <2> QED
    BY <1>1, <1>4, <1>5, <2>2, <2>3, <2>4, LockMove, SnapshotMove
<1>9. CASE Next(g)
  <2> DEFINE i == iter[g].idx
             k == InOrder(S)[i] + 1
  <2>1. i \in DOMAIN InOrder(S)
    BY <1>1, <1>5, <1>9 DEF Next, Iterators
  <2>2. MoveTo(g, i + 1, k)
    BY <1>5, <1>9 DEF Next
  <2> HIDE DEF i
  <2>3. i + 1 \in Nat \ {0} /\ k \in Nat
    BY <1>6, <2>1
  <2>4. ASSUME NEW j \in DOMAIN InOrder(S) PROVE j >= i + 1 <=> InOrder(S)[j] >= k
    <3>1. InOrder(S)[j] \in Nat /\ InOrder(S)[i] \in Nat /\ i \in Nat /\ j \in Nat
      BY <1>6, <2>1
    <3>2. i < j => InOrder(S)[i] < InOrder(S)[j]
      BY <1>6, <2>1
    <3>3. j < i => InOrder(S)[j] < InOrder(S)[i]
      BY <1>6, <2>1
    <3> QED
      BY <3>1, <3>2, <3>3
  <2> HIDE DEF k
  <2> QED
    BY <1>1, <1>4, <1>5, <2>2, <2>3, <2>4, LockMove, SnapshotMove
<1> QED
  BY <1>7, <1>8, <1>9

\* Nobody changes what an open iterator has collected: a step by which no iterator moves and none
\* is made keeps SnapshotInv if the contents are the same, or if no iterator is open.
LEMMA SnapshotKept ==
    ASSUME SnapshotInv, UNCHANGED iterVars, UNCHANGED dbVars \/ Iterating = {}
    PROVE  SnapshotInv'
<1>1. iter' = iter /\ from' = from
  BY DEF iterVars
<1>2. CASE Iterating = {}
  <2>1. \A g \in Goroutine : ~iter'[g].open
    BY <1>1, <1>2 DEF Iterating
  <2> QED
    BY <2>1 DEF SnapshotInv
<1>3. CASE UNCHANGED dbVars
  BY <1>1, <1>3 DEF dbVars, SnapshotInv, Current
<1> QED
  BY <1>2, <1>3

\* A new iterator stands before no key, and a closed one is not open.
LEMMA SnapshotOther ==
    ASSUME LockInv, SnapshotInv, NEW g \in Goroutine, NewIterator(g) \/ CloseIter(g)
    PROVE  SnapshotInv'
<1>1. iter \in [Goroutine -> Iterators] /\ from \in [Goroutine -> Nat] /\ store \in SUBSET Keys
  BY DEF LockInv, DBType
<1>2. UNCHANGED <<store, closed>> /\ from' = [from EXCEPT ![g] = MaxKey + 1]
  BY DEF NewIterator, CloseIter, dbVars
<1>3. ASSUME ~closed, iter'[g].open PROVE Current(iter'[g], MaxKey + 1)
  <2>1. CASE NewIterator(g)
    <3>1. iter' = [iter EXCEPT ![g] = [items |-> InOrder(store), idx |-> 0, open |-> TRUE]]
      BY <1>3, <2>1 DEF NewIterator, Merged
    <3>2. iter'[g].items = InOrder(store) /\ iter'[g].idx = 0
      BY <1>1, <3>1
    <3>3. \A m \in store : ~(m >= MaxKey + 1)
      BY <1>1, KeyAssumption DEF Keys
    <3> QED
      BY <3>2, <3>3 DEF Current, AheadOf
  <2>2. CASE CloseIter(g)
    BY <1>1, <1>3, <2>2, MakesIterators DEF CloseIter
  <2> QED
    BY <2>1, <2>2
<1>4. ASSUME NEW h \in Goroutine, h # g PROVE iter'[h] = iter[h] /\ from'[h] = from[h]
  BY <1>1, <1>2, <1>4 DEF NewIterator, CloseIter
<1>5. ASSUME ~closed', NEW h \in Goroutine, iter'[h].open PROVE Current(iter[h], from[h])'
  <2>1. Current(iter'[h], from'[h])
    BY <1>1, <1>2, <1>3, <1>4, <1>5 DEF SnapshotInv
  <2> QED
    BY <1>2, <2>1 DEF Current
<1> QED
  BY <1>5 DEF SnapshotInv

-----------------------------------------------------------------------------
\* Every step keeps the invariant.
LEMMA LockNext ==
    ASSUME LockInv, SnapshotInv, [DBNext]_lockedVars
    PROVE  LockInv' /\ SnapshotInv'
<1>1. CASE UNCHANGED lockedVars
  <2>1. UNCHANGED <<readers, writer, pc, call, dbVars, iterVars, store, closed, iter, from>>
    BY <1>1 DEF lockedVars, muVars, dbVars, iterVars
  <2>2. DBType' /\ OneWriter' /\ WriterAlone' /\ Reading' = Reading /\ Iterating' = Iterating
    BY <2>1 DEF LockInv, DBType, OneWriter, WriterAlone, Reading, Iterating
  <2> QED
    BY <2>1, <2>2, SnapshotKept DEF LockInv, ReadersCounted
<1>2. CASE DBNext
  <2>1. PICK g \in Goroutine :
           \/ Read(g) \/ Write(g) \/ Announce(g) \/ Proceed(g)
           \/ SeekToFirst(g) \/ Next(g) \/ CloseIter(g)
           \/ \E t \in Keys : Seek(g, t)
    BY <1>2 DEF DBNext
  <2>2. CASE Read(g)
    BY <2>2, LockRead, SnapshotKept DEF Read
  <2>3. CASE Write(g) \/ Announce(g) \/ Enter(g)
    BY <2>3, LockWrite, SnapshotKept DEF Write, Announce, Enter
  <2>4. CASE GetReturns(g)
    BY <2>4, LockGet, SnapshotKept DEF GetReturns
  <2>5. CASE WriteReturns(g)
    BY <2>5, LockUnlock, NoIterators, SnapshotKept DEF WriteReturns
  <2>6. CASE NewIterator(g)
    BY <2>6, LockNewIterator, SnapshotOther
  <2>7. CASE CloseIter(g)
    BY <2>7, LockClose, SnapshotOther
  <2>8. CASE SeekToFirst(g) \/ Next(g) \/ \E t \in Keys : Seek(g, t)
    BY <2>8, SnapshotUse
  <2> QED
    BY <2>1, <2>2, <2>3, <2>4, <2>5, <2>6, <2>7, <2>8 DEF Proceed
<1> QED
  BY <1>1, <1>2

(***************************************************************************)
(* However many goroutines call, and even if they call with an iterator    *)
(* open, lose iterators or never close them: until the DB is closed an     *)
(* open iterator has exactly the keys that are present now ahead of it,    *)
(* from where it was placed on (DB.NewIterator, Iterator.Seek,             *)
(* Iterator.Next, Iterator.Close).                                         *)
(***************************************************************************)
THEOREM IteratorsAreCurrent == DBSpec => []IteratorIsCurrent
<1>1. DBInit => LockInv /\ SnapshotInv
  <2>1. DBInit => SnapshotInv
    BY MakesIterators DEF DBInit, SnapshotInv
  <2> QED
    BY <2>1, LockInit
<1>2. LockInv /\ SnapshotInv /\ [DBNext]_lockedVars => (LockInv /\ SnapshotInv)'
  BY LockNext
<1>3. SnapshotInv => IteratorIsCurrent
  <2>1. \A g \in Goroutine : Ahead(g) = AheadOf(iter[g].items, iter[g].idx)
    BY DEF Ahead, AheadOf
  <2> QED
    BY <2>1 DEF SnapshotInv, Current, IteratorIsCurrent
<1> QED
  BY <1>1, <1>2, <1>3, PTL DEF DBSpec
=============================================================================

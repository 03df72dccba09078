---------------------------- MODULE MergeProofs ----------------------------
(***************************************************************************)
(* Merges, for any inputs, block sizes and options: the table that is      *)
(* written has the newest version of every key, and a Reader finds it.     *)
(***************************************************************************)
EXTENDS Merge, TableFileProofs

-----------------------------------------------------------------------------
(***************************************************************************)
(* Entries in the order of their keys.                                     *)
(***************************************************************************)
\* The entries of a table: each key once.
Keyed(E) == E \in SUBSET TableEntry /\ IsFiniteSet(E) /\ \A e, f \in E : e.key = f.key => e = f

LowerIn(E, e) == {f \in E : Less(f.key, e.key)}

\* A larger key has more entries before it.
LEMMA RankGrows ==
    ASSUME NEW E, Keyed(E), NEW d \in E, NEW e \in E, Less(d.key, e.key)
    PROVE  Cardinality(LowerIn(E, d)) + 1 <= Cardinality(LowerIn(E, e))
<1>1. IsFiniteSet(LowerIn(E, d)) /\ IsFiniteSet(LowerIn(E, e))
  <2>1. LowerIn(E, d) \in SUBSET E /\ LowerIn(E, e) \in SUBSET E
    BY DEF LowerIn
  <2> QED
    BY <2>1, FS_Subset DEF Keyed
<1>2. d \notin LowerIn(E, d) /\ LowerIn(E, d) \cup {d} \in SUBSET LowerIn(E, e)
  <2>1. \A f \in E : ~Less(d.key, d.key) /\ (Less(f.key, d.key) => Less(f.key, e.key))
    BY KeyOrder DEF Keyed
  <2> QED
    BY <2>1 DEF LowerIn
<1>3. Cardinality(LowerIn(E, d) \cup {d}) = Cardinality(LowerIn(E, d)) + 1
  BY <1>1, <1>2, FS_AddElement
<1>4. Cardinality(LowerIn(E, d) \cup {d}) <= Cardinality(LowerIn(E, e))
  BY <1>1, <1>2, FS_Subset
<1> QED
  BY <1>3, <1>4

\* The numbers of entries before each are those from 0 on, each once.
LEMMA Ranks ==
    ASSUME NEW E, Keyed(E)
    PROVE  /\ Cardinality(E) \in Nat
           /\ \A e \in E : Cardinality(LowerIn(E, e)) \in 0 .. Cardinality(E) - 1
           /\ \A i \in 1 .. Cardinality(E) : \E e \in E : Cardinality(LowerIn(E, e)) = i - 1
           /\ \A d, e \in E : Cardinality(LowerIn(E, d)) = Cardinality(LowerIn(E, e)) => d = e
<1> DEFINE n == Cardinality(E)
           r == [e \in E |-> Cardinality(LowerIn(E, e)) + 1]
<1>1. n \in Nat /\ IsFiniteSet(E)
  BY FS_CardinalityType DEF Keyed
<1>2. ASSUME NEW e \in E PROVE Cardinality(LowerIn(E, e)) \in 0 .. n - 1
  <2>1. IsFiniteSet(E \ {e}) /\ Cardinality(E \ {e}) = n - 1
    BY <1>1, FS_RemoveElement
  <2>2. LowerIn(E, e) \in SUBSET (E \ {e})
    BY KeyOrder DEF LowerIn, Keyed
  <2>3. IsFiniteSet(LowerIn(E, e)) /\ Cardinality(LowerIn(E, e)) <= n - 1
    BY <2>1, <2>2, FS_Subset
  <2>4. Cardinality(LowerIn(E, e)) \in Nat
    BY <2>3, FS_CardinalityType
  <2> QED
    BY <1>1, <2>3, <2>4
<1>3. r \in [E -> 1 .. n]
  BY <1>1, <1>2
<1>4. ASSUME NEW d \in E, NEW e \in E, Cardinality(LowerIn(E, d)) = Cardinality(LowerIn(E, e)) PROVE d = e
  <2>1. ~Less(d.key, e.key) /\ ~Less(e.key, d.key)
    BY <1>2, <1>4, RankGrows
  <2>2. d.key = e.key
    BY <2>1, KeyOrder DEF Keyed
  <2> QED
    BY <2>2 DEF Keyed
<1>5. r \in Injection(E, 1 .. n)
  BY <1>1, <1>2, <1>3, <1>4 DEF Injection, IsInjective
<1>6. IsFiniteSet(1 .. n) /\ Cardinality(1 .. n) = n
  BY <1>1, FS_Interval
<1>7. r \in Surjection(E, 1 .. n)
  BY <1>1, <1>5, <1>6, FS_Injection
<1>8. \A i \in 1 .. n : \E e \in E : r[e] = i
  BY <1>7 DEF Surjection
<1>9. ASSUME NEW i \in 1 .. n PROVE \E e \in E : Cardinality(LowerIn(E, e)) = i - 1
  <2>1. PICK e \in E : r[e] = i
    BY <1>8
  <2>2. Cardinality(LowerIn(E, e)) + 1 = i /\ Cardinality(LowerIn(E, e)) \in Nat
    BY <1>2, <2>1
  <2> QED
    BY <1>1, <2>2
<1> QED
  BY <1>1, <1>2, <1>4, <1>9

Listed(s, E) == Sorted(s) /\ E = {s[i] : i \in 1 .. Len(s)}

\* InOrder lists the entries of a table, each once, in ascending order.
LEMMA InOrderListed ==
    ASSUME NEW E, Keyed(E)
    PROVE  Listed(InOrder(E), E) /\ Len(InOrder(E)) = Cardinality(E)
<1> DEFINE n == Cardinality(E)
           a == InOrder(E)
           b == [e \in E |-> Cardinality(LowerIn(E, e))]
<1>1. n \in Nat /\ DOMAIN a = 1 .. n /\ a = [i \in 1 .. n |-> a[i]]
  <2>1. n \in Nat
    BY Ranks
  <2>2. DOMAIN a = 1 .. n
    BY DEF InOrder
  <2>3. a = [i \in 1 .. n |-> a[i]]
    <3> DEFINE C(i) == CHOOSE e \in E : Cardinality({f \in E : Less(f.key, e.key)}) = i - 1
    <3>1. a = [i \in 1 .. n |-> C(i)]
      BY DEF InOrder
    <3> HIDE DEF C, a, n
    <3> QED
      BY <3>1
  <2> QED
    BY <2>1, <2>2, <2>3
<1>2. ASSUME NEW i \in 1 .. n PROVE a[i] \in E /\ b[a[i]] = i - 1
  <2>1. a[i] = CHOOSE e \in E : b[e] = i - 1
    BY DEF InOrder, LowerIn
  <2>2. \E e \in E : b[e] = i - 1
    BY Ranks
  <2> QED
    BY <2>1, <2>2
<1>3. \A e \in E : b[e] \in 0 .. n - 1
  BY Ranks
<1>4. \A d, e \in E : Less(d.key, e.key) => b[d] + 1 <= b[e]
  BY RankGrows
<1>5. \A d, e \in E : b[d] = b[e] => d = e
  BY Ranks
<1>6. E \in SUBSET TableEntry
  BY DEF Keyed
<1> HIDE DEF n, a, b
<1>7. a \in Seq(TableEntry) /\ Len(a) = n
  <2>1. a \in [1 .. n -> TableEntry]
    BY <1>1, <1>2, <1>6
  <2> QED
    BY <1>1, <2>1
<1>8. ASSUME NEW i \in 1 .. n, NEW j \in 1 .. n, i < j PROVE Less(a[i].key, a[j].key)
  <2>1. a[i] \in E /\ a[j] \in E /\ b[a[i]] = i - 1 /\ b[a[j]] = j - 1
    BY <1>2
  <2>2. a[j] # a[i]
    BY <1>1, <1>8, <2>1
  <2>3. Less(a[j].key, a[i].key) => (j - 1) + 1 <= i - 1
    BY <1>4, <2>1
  <2>4. ~Less(a[j].key, a[i].key)
    BY <1>1, <1>8, <2>3
  <2> QED
    BY <2>1, <2>2, <2>4, KeyOrder DEF Keyed
<1>9. ASSUME NEW e \in E PROVE \E i \in 1 .. n : a[i] = e
  <2> DEFINE i == b[e] + 1
  <2>1. i \in 1 .. n
    BY <1>1, <1>3
  <2>2. a[i] \in E /\ b[a[i]] = b[e]
    BY <1>1, <1>2, <1>3, <2>1
  <2>3. a[i] = e
    BY <1>5, <2>2
  <2> QED
    BY <2>1, <2>3
<1>10. E = {a[i] : i \in 1 .. n}
  BY <1>2, <1>9
<1> QED
  BY <1>7, <1>8, <1>10 DEF Listed, Sorted, a, n

\* The place of an entry in a sorted list is the number of those before it.
LEMMA PlaceIsRank ==
    ASSUME NEW s, NEW E, Listed(s, E), NEW i \in 1 .. Len(s)
    PROVE  s[i] \in E /\ Cardinality(LowerIn(E, s[i])) = i - 1
<1> DEFINE f == [j \in 1 .. i - 1 |-> s[j]]
<1>1. /\ s \in Seq(TableEntry) /\ Len(s) \in Nat /\ \A j \in 1 .. Len(s) : s[j] \in TableEntry
      /\ \A j, k \in 1 .. Len(s) : j < k => Less(s[j].key, s[k].key)
  BY DEF Listed, Sorted
<1>2. E = {s[j] : j \in 1 .. Len(s)}
  BY DEF Listed
<1>3. ASSUME NEW j \in 1 .. Len(s) PROVE Less(s[j].key, s[i].key) <=> j \in 1 .. i - 1
  <2>1. j < i => Less(s[j].key, s[i].key)
    BY <1>1
  <2>2. i < j => Less(s[i].key, s[j].key)
    BY <1>1
  <2>3. ~(Less(s[j].key, s[i].key) /\ Less(s[i].key, s[j].key)) /\ ~Less(s[i].key, s[i].key)
    BY <1>1, KeyOrder
  <2> QED
    BY <1>1, <2>1, <2>2, <2>3
<1>4. \A j \in 1 .. i - 1 : j \in 1 .. Len(s)
  BY <1>1
<1>5. \A x : x \in LowerIn(E, s[i]) <=> \E j \in 1 .. i - 1 : x = s[j]
  BY <1>2, <1>3, <1>4 DEF LowerIn
<1>6. \A j, k \in 1 .. i - 1 : s[j] = s[k] => j = k
  <2> SUFFICES ASSUME NEW j \in 1 .. i - 1, NEW k \in 1 .. i - 1, s[j] = s[k], j # k PROVE FALSE
    OBVIOUS
  <2>1. j \in 1 .. Len(s) /\ k \in 1 .. Len(s)
    BY <1>4
  <2>2. Less(s[j].key, s[k].key) \/ Less(s[k].key, s[j].key)
    BY <1>1, <2>1
  <2> QED
    BY <1>1, <2>1, <2>2, KeyOrder
<1>7. f \in Bijection(1 .. i - 1, LowerIn(E, s[i]))
  BY <1>5, <1>6 DEF Bijection, Injection, Surjection, IsInjective
<1>8. ExistsBijection(1 .. i - 1, LowerIn(E, s[i])) /\ i - 1 \in Nat
  BY <1>7 DEF ExistsBijection
<1> QED
  BY <1>2, <1>8, FS_CountingElements, FS_NatBijection

\* There is one list of a set of entries.
LEMMA ListedOnce ==
    ASSUME NEW s, NEW E, Listed(s, E)
    PROVE  Keyed(E) /\ InOrder(E) = s
<1>1. /\ s \in Seq(TableEntry) /\ Len(s) \in Nat /\ \A j \in 1 .. Len(s) : s[j] \in TableEntry
      /\ \A j, k \in 1 .. Len(s) : j < k => Less(s[j].key, s[k].key)
      /\ E = {s[j] : j \in 1 .. Len(s)}
  BY DEF Listed, Sorted
<1>2. \A j, k \in 1 .. Len(s) : s[j].key = s[k].key => j = k
  <2> SUFFICES ASSUME NEW j \in 1 .. Len(s), NEW k \in 1 .. Len(s), s[j].key = s[k].key, j # k PROVE FALSE
    OBVIOUS
  <2>1. Less(s[j].key, s[k].key) \/ Less(s[k].key, s[j].key)
    BY <1>1
  <2> QED
    BY <1>1, <2>1, KeyOrder
<1>3. IsFiniteSet(E) /\ Cardinality(E) = Len(s)
  <2> DEFINE f == [j \in 1 .. Len(s) |-> s[j]]
  <2>1. f \in Bijection(1 .. Len(s), E)
    BY <1>1, <1>2 DEF Bijection, Injection, Surjection, IsInjective
  <2>2. ExistsBijection(1 .. Len(s), E)
    BY <2>1 DEF ExistsBijection
  <2> QED
    BY <1>1, <2>2, FS_CountingElements, FS_NatBijection
<1>4. Keyed(E)
  <2>1. E \in SUBSET TableEntry
    BY <1>1
  <2>2. ASSUME NEW e \in E, NEW f \in E, e.key = f.key PROVE e = f
    <3>1. PICK j \in 1 .. Len(s) : e = s[j]
      BY <1>1
    <3>2. PICK k \in 1 .. Len(s) : f = s[k]
      BY <1>1
    <3> QED
      BY <1>2, <2>2, <3>1, <3>2
  <2> QED
    BY <1>3, <2>1, <2>2 DEF Keyed
<1>5. ASSUME NEW i \in 1 .. Len(s) PROVE InOrder(E)[i] = s[i]
  <2>1. InOrder(E)[i] = CHOOSE e \in E : Cardinality(LowerIn(E, e)) = i - 1
    BY <1>3 DEF InOrder, LowerIn
  <2>2. s[i] \in E /\ Cardinality(LowerIn(E, s[i])) = i - 1
    BY PlaceIsRank
  <2>3. \A d, e \in E : Cardinality(LowerIn(E, d)) = Cardinality(LowerIn(E, e)) => d = e
    BY <1>4, Ranks
  <2> QED
    BY <2>1, <2>2, <2>3
<1>6. InOrder(E) \in Seq(TableEntry) /\ Len(InOrder(E)) = Len(s)
  BY <1>3, <1>4, InOrderListed DEF Listed, Sorted
<1> QED
  BY <1>1, <1>4, <1>5, <1>6, SeqEqual

-----------------------------------------------------------------------------
(***************************************************************************)
(* The heap and the inputs.  Every input is sorted, and an input that has  *)
(* entries left has an item in the heap, whose key is before theirs; so    *)
(* the least item of the heap is the least of all that is left.            *)
(***************************************************************************)
Left(hp, inp) == {h.ent : h \in hp} \cup UNION {{inp[i][n] : n \in 1 .. Len(inp[i])} : i \in DOMAIN inp}

\* Two versions of a key have different numbers.
Versions(E) == \A e, f \in E : e.key = f.key /\ e.seq = f.seq => e = f

Queue(hp, inp) ==
    /\ inp = [i \in DOMAIN inp |-> inp[i]]
    /\ \A i \in DOMAIN inp : Sorted(inp[i])
    /\ \A h \in hp : h.idx \in DOMAIN inp /\ h.ent \in TableEntry
    /\ \A g, h \in hp : g.idx = h.idx => g = h
    /\ \A h \in hp : \A n \in 1 .. Len(inp[h.idx]) : Less(h.ent.key, inp[h.idx][n].key)
    /\ \A i \in DOMAIN inp : inp[i] # << >> => \E h \in hp : h.idx = i
    /\ Versions(Left(hp, inp))

\* What is left is in the heap or in an input.
LEMMA LeftMember ==
    ASSUME NEW hp, NEW inp, NEW e
    PROVE  e \in Left(hp, inp) <=> \/ \E h \in hp : e = h.ent
                                   \/ \E i \in DOMAIN inp : \E n \in 1 .. Len(inp[i]) : e = inp[i][n]
  BY DEF Left

\* What is left are entries of tables.
LEMMA LeftType ==
    ASSUME NEW hp, NEW inp, Queue(hp, inp)
    PROVE  Left(hp, inp) \in SUBSET TableEntry
<1>1. \A h \in hp : h.ent \in TableEntry
  BY DEF Queue
<1>2. \A i \in DOMAIN inp : \A n \in 1 .. Len(inp[i]) : inp[i][n] \in TableEntry
  BY DEF Queue, Sorted
<1> QED
  BY <1>1, <1>2, LeftMember

\* What heap.Pop returns is the newest version of the least key that is left.
LEMMA PopIsLeast ==
    ASSUME NEW hp, NEW inp, Queue(hp, inp), NEW item \in hp, \A other \in hp \ {item} : Before(item, other),
           NEW e \in Left(hp, inp)
    PROVE  /\ ~Less(e.key, item.ent.key)
           /\ e.key = item.ent.key => e.seq <= item.ent.seq
<1>1. item.ent \in TableEntry /\ e \in TableEntry
  BY LeftType DEF Queue
<1>2. item.ent.seq \in Nat /\ e.seq \in Nat
  BY <1>1 DEF TableEntry
<1>3. ASSUME NEW h \in hp
      PROVE  /\ h.ent \in TableEntry
             /\ item.ent.key = h.ent.key \/ Less(item.ent.key, h.ent.key)
             /\ h.ent.key = item.ent.key => h.ent.seq <= item.ent.seq
  <2>1. h.ent \in TableEntry
    BY DEF Queue
  <2>2. h.ent.seq \in Nat
    BY <2>1 DEF TableEntry
  <2>3. CASE h = item
    BY <1>2, <2>1, <2>3
  <2>4. CASE h # item
    <3>1. Before(item, h)
      BY <2>4
    <3>2. ~(Less(item.ent.key, h.ent.key) /\ h.ent.key = item.ent.key)
      BY <1>1, KeyOrder
    <3> QED
      BY <1>2, <2>1, <2>2, <3>1, <3>2 DEF Before
  <2> QED
    BY <2>3, <2>4
<1>4. CASE \E h \in hp : e = h.ent
  BY <1>1, <1>3, <1>4, KeyOrder
<1>5. CASE \E i \in DOMAIN inp : \E n \in 1 .. Len(inp[i]) : e = inp[i][n]
  <2> PICK i \in DOMAIN inp : \E n \in 1 .. Len(inp[i]) : e = inp[i][n]
    BY <1>5
  <2>1. PICK n \in 1 .. Len(inp[i]) : e = inp[i][n]
    OBVIOUS
  <2>2. inp[i] # << >>
    <3>1. Len(inp[i]) # 0
      OBVIOUS
    <3> QED
      BY <3>1
  <2>3. PICK h \in hp : h.idx = i
    BY <2>2 DEF Queue
  <2>4. Less(h.ent.key, e.key)
    BY <2>1, <2>3 DEF Queue
  <2>5. Less(item.ent.key, e.key)
    BY <1>1, <1>3, <2>4, KeyOrder
  <2> QED
    BY <1>1, <2>5, KeyOrder
<1> QED
  BY <1>4, <1>5, LeftMember

\* Tail of a sorted list.
LEMMA SortedTail ==
    ASSUME NEW s, Sorted(s), s # << >>
    PROVE  /\ Sorted(Tail(s)) /\ Len(Tail(s)) = Len(s) - 1 /\ Len(s) \in Nat /\ Len(s) > 0
           /\ Head(s) = s[1] /\ \A n \in 1 .. Len(s) - 1 : Tail(s)[n] = s[n + 1] /\ n + 1 \in 1 .. Len(s)
           /\ \A n \in 1 .. Len(s) - 1 : Less(Head(s).key, Tail(s)[n].key)
           /\ Head(s) \in TableEntry
<1>1. s \in Seq(TableEntry) /\ \A i, j \in 1 .. Len(s) : i < j => Less(s[i].key, s[j].key)
  BY DEF Sorted
<1>2. Tail(s) \in Seq(TableEntry) /\ Len(Tail(s)) = Len(s) - 1 /\ Len(s) \in Nat /\ Len(s) > 0
  BY <1>1
<1>3. Head(s) = s[1] /\ Head(s) \in TableEntry
  BY <1>1, <1>2
<1>4. \A n \in 1 .. Len(s) - 1 : Tail(s)[n] = s[n + 1] /\ n + 1 \in 1 .. Len(s)
  BY <1>1, <1>2
<1>5. Sorted(Tail(s))
  <2> SUFFICES ASSUME NEW i \in 1 .. Len(s) - 1, NEW j \in 1 .. Len(s) - 1, i < j
               PROVE  Less(Tail(s)[i].key, Tail(s)[j].key)
    BY <1>2 DEF Sorted
  <2>1. i + 1 < j + 1
    OBVIOUS
  <2> QED
    BY <1>1, <1>4, <2>1
<1>6. ASSUME NEW n \in 1 .. Len(s) - 1 PROVE Less(Head(s).key, Tail(s)[n].key)
  <2>1. 1 < n + 1 /\ 1 \in 1 .. Len(s)
    BY <1>2
  <2> QED
    BY <1>1, <1>3, <1>4, <2>1
<1> QED
  BY <1>2, <1>3, <1>4, <1>5, <1>6

Popped(hp, inp, item, hp2, inp2) ==
    /\ hp2 = (hp \ {item}) \cup Items(item.idx, inp[item.idx])
    /\ inp2 = [inp EXCEPT ![item.idx] = Rest(@)]

\* The item's place is taken by the next entry of its input.
LEMMA QueuePop ==
    ASSUME NEW hp, NEW inp, Queue(hp, inp), NEW item \in hp, NEW hp2, NEW inp2,
           Popped(hp, inp, item, hp2, inp2)
    PROVE  Queue(hp2, inp2) /\ Left(hp, inp) = {item.ent} \cup Left(hp2, inp2)
<1> DEFINE k == item.idx
           s == inp[k]
<1>1. k \in DOMAIN inp /\ Sorted(s) /\ inp = [i \in DOMAIN inp |-> inp[i]]
  BY DEF Queue
<1>2. DOMAIN inp2 = DOMAIN inp /\ inp2[k] = Rest(s) /\ \A i \in DOMAIN inp \ {k} : inp2[i] = inp[i]
  BY <1>1 DEF Popped
<1>3. inp2 = [i \in DOMAIN inp2 |-> inp2[i]]
  BY <1>1, <1>2 DEF Popped
<1>4. \A h \in hp : h.idx \in DOMAIN inp /\ h.ent \in TableEntry /\ (h.idx = k => h = item)
  BY DEF Queue
<1>5. CASE s = << >>
  <2>1. Rest(s) = s /\ Items(k, s) = {}
    BY <1>5 DEF Rest, Items
  <2>2. hp2 = hp \ {item} /\ \A i \in DOMAIN inp : inp2[i] = inp[i]
    BY <1>2, <2>1 DEF Popped
  <2>3. inp2 = inp
    BY <1>1, <1>2, <1>3, <2>2
  <2>4. \A e : e \in Left(hp, inp) <=> e = item.ent \/ e \in Left(hp2, inp2)
    BY <2>2, <2>3, LeftMember
  <2>5. Left(hp, inp) = {item.ent} \cup Left(hp2, inp2)
    BY <2>4
  <2>6. Versions(Left(hp2, inp2))
    BY <2>5 DEF Queue, Versions
  <2>7. \A i \in DOMAIN inp : inp[i] # << >> => \E h \in hp2 : h.idx = i
    <3> SUFFICES ASSUME NEW i \in DOMAIN inp, inp[i] # << >> PROVE \E h \in hp2 : h.idx = i
      OBVIOUS
    <3>1. PICK h \in hp : h.idx = i
      BY DEF Queue
    <3> QED
      BY <1>5, <2>2, <3>1
  <2>8. Queue(hp2, inp2)
    BY <2>2, <2>3, <2>6, <2>7 DEF Queue
  <2> QED
    BY <2>5, <2>8
<1>6. CASE s # << >>
  <2> DEFINE new == [idx |-> k, ent |-> Head(s)]
             t == Tail(s)
  <2>1. /\ Sorted(t) /\ Len(t) = Len(s) - 1 /\ Len(s) \in Nat /\ Len(s) > 0 /\ Head(s) = s[1]
        /\ \A n \in 1 .. Len(t) : t[n] = s[n + 1] /\ n + 1 \in 1 .. Len(s) /\ Less(Head(s).key, t[n].key)
        /\ Head(s) \in TableEntry
    BY <1>1, <1>6, SortedTail
  <2>2. Rest(s) = t /\ Items(k, s) = {new}
    BY <1>6 DEF Rest, Items
  <2>3. hp2 = (hp \ {item}) \cup {new} /\ inp2[k] = t /\ new.idx = k /\ new.ent = Head(s)
    BY <1>2, <2>2 DEF Popped
  <2> HIDE DEF new, t, s, k
  <2>4. \A n \in 1 .. Len(s) : n = 1 \/ (n - 1 \in 1 .. Len(t) /\ t[n - 1] = s[n])
    <3> SUFFICES ASSUME NEW n \in 1 .. Len(s), n # 1 PROVE n - 1 \in 1 .. Len(t) /\ t[n - 1] = s[n]
      OBVIOUS
    <3>1. n - 1 \in 1 .. Len(t) /\ (n - 1) + 1 = n
      BY <2>1
    <3> QED
      BY <2>1, <3>1
  <2>5. ASSUME NEW e PROVE e \in Left(hp, inp) <=> e = item.ent \/ e \in Left(hp2, inp2)
    <3>1. ASSUME NEW h \in hp, e = h.ent PROVE e = item.ent \/ e \in Left(hp2, inp2)
      BY <2>3, <3>1, LeftMember
    <3>2. ASSUME NEW i \in DOMAIN inp, NEW n \in 1 .. Len(inp[i]), e = inp[i][n] PROVE e \in Left(hp2, inp2)
      <4>1. CASE i # k
        <5>1. i \in DOMAIN inp2 /\ inp2[i] = inp[i]
          BY <1>2, <4>1
        <5> QED
          BY <3>2, <5>1, LeftMember
      <4>2. CASE i = k /\ n = 1
        <5>1. e = new.ent /\ new \in hp2
          BY <2>1, <2>3, <3>2, <4>2 DEF s
        <5> QED
          BY <5>1, LeftMember
      <4>3. CASE i = k /\ n # 1
        <5>1. n - 1 \in 1 .. Len(inp2[k]) /\ inp2[k][n - 1] = e
          BY <2>3, <2>4, <3>2, <4>3 DEF s
        <5> QED
          BY <1>1, <1>2, <5>1, LeftMember
      <4> QED
        BY <4>1, <4>2, <4>3
    <3>3. item.ent \in Left(hp, inp)
      BY LeftMember
    <3>4. ASSUME NEW h \in hp2, e = h.ent PROVE e \in Left(hp, inp)
      <4>1. CASE h \in hp
        BY <3>4, <4>1, LeftMember
      <4>2. CASE h = new
        <5>1. e = inp[k][1] /\ 1 \in 1 .. Len(inp[k])
          BY <2>1, <2>3, <3>4, <4>2 DEF s
        <5> QED
          BY <1>1, <5>1, LeftMember
      <4> QED
        BY <2>3, <4>1, <4>2
    <3>5. ASSUME NEW i \in DOMAIN inp2, NEW n \in 1 .. Len(inp2[i]), e = inp2[i][n] PROVE e \in Left(hp, inp)
      <4>1. CASE i # k
        <5>1. i \in DOMAIN inp /\ inp2[i] = inp[i]
          BY <1>2, <4>1
        <5> QED
          BY <3>5, <5>1, LeftMember
      <4>2. CASE i = k
        <5>1. n + 1 \in 1 .. Len(inp[k]) /\ e = inp[k][n + 1]
          BY <2>1, <2>3, <3>5, <4>2 DEF s
        <5> QED
          BY <1>1, <5>1, LeftMember
      <4> QED
        BY <4>1, <4>2
    <3>6. e \in Left(hp, inp) => e = item.ent \/ e \in Left(hp2, inp2)
      <4>1. e \in Left(hp, inp) => \/ \E h \in hp : e = h.ent
                                 \/ \E i \in DOMAIN inp : \E n \in 1 .. Len(inp[i]) : e = inp[i][n]
        BY LeftMember
      <4> QED
        BY <3>1, <3>2, <4>1, Zenon
    <3>7. e \in Left(hp2, inp2) => e \in Left(hp, inp)
      <4>1. e \in Left(hp2, inp2) => \/ \E h \in hp2 : e = h.ent
                                   \/ \E i \in DOMAIN inp2 : \E n \in 1 .. Len(inp2[i]) : e = inp2[i][n]
        BY LeftMember
      <4>2. (\E h \in hp2 : e = h.ent) => e \in Left(hp, inp)
        BY <3>4
      <4>3. (\E i \in DOMAIN inp2 : \E n \in 1 .. Len(inp2[i]) : e = inp2[i][n]) => e \in Left(hp, inp)
        BY <3>5
      <4> QED
        BY <4>1, <4>2, <4>3
    <3> QED
      BY <3>3, <3>6, <3>7
  <2>6. Left(hp, inp) = {item.ent} \cup Left(hp2, inp2)
    BY <2>5
  <2>7. Versions(Left(hp2, inp2))
    BY <2>6 DEF Queue, Versions
  <2>8. \A i \in DOMAIN inp2 : Sorted(inp2[i])
    BY <1>2, <2>1, <2>3 DEF Queue
  <2>9. \A h \in hp2 : h.idx \in DOMAIN inp2 /\ h.ent \in TableEntry
    BY <1>1, <1>2, <1>4, <2>1, <2>3
  <2>10. \A g, h \in hp2 : g.idx = h.idx => g = h
    BY <1>4, <2>3 DEF Queue
  <2>11. ASSUME NEW h \in hp2, NEW n \in 1 .. Len(inp2[h.idx]) PROVE Less(h.ent.key, inp2[h.idx][n].key)
    <3>1. CASE h = new
      BY <2>1, <2>3, <2>11, <3>1
    <3>2. CASE h # new
      <4>1. h \in hp /\ h.idx # k
        BY <1>4, <2>3, <2>11, <3>2
      <4>2. inp2[h.idx] = inp[h.idx]
        BY <1>2, <1>4, <4>1
      <4> QED
        BY <2>11, <4>1, <4>2 DEF Queue
    <3> QED
      BY <3>1, <3>2
  <2>12. ASSUME NEW i \in DOMAIN inp2, inp2[i] # << >> PROVE \E h \in hp2 : h.idx = i
    <3>1. CASE i = k
      BY <2>3, <3>1
    <3>2. CASE i # k
      <4>1. inp[i] # << >> /\ i \in DOMAIN inp
        BY <1>2, <2>12, <3>2
      <4>2. PICK h \in hp : h.idx = i
        BY <4>1 DEF Queue
      <4>3. h # item
        BY <3>2, <4>2 DEF k
      <4> QED
        BY <2>3, <4>2, <4>3
    <3> QED
      BY <3>1, <3>2
  <2>13. Queue(hp2, inp2)
    BY <1>3, <2>7, <2>8, <2>9, <2>10, <2>11, <2>12 DEF Queue
  <2> QED
    BY <2>6, <2>13
<1> QED
  BY <1>5, <1>6

-----------------------------------------------------------------------------
(***************************************************************************)
(* What a merge has yet to write: of every key that is left and is not the *)
(* last one the newest version, if it is kept.                             *)
(***************************************************************************)
KeptBy(drop, E) == {e \in E : e.val = Tombstone => ~drop}

Pending(drop, E, lst) == {e \in KeptBy(drop, Top(E)) : e.key \notin lst}

\* Nothing that is left is before the last key.
LastOK(lst, E) == \A k \in lst : k \in Seq(Nat) /\ \A e \in E : ~Less(e.key, k)

\* e is the newest version of the least key.
LeastOf(E, e) == \A f \in E : ~Less(f.key, e.key) /\ (f.key = e.key => f.seq <= e.seq)

Leaves(E, e, E2) == E = {e} \cup E2

Settles(E, e, E2, lst, drop) ==
    /\ LastOK({e.key}, E2)
    /\ Pending(drop, E2, {e.key}) = Pending(drop, E, lst) \ {e}
    /\ e \in Pending(drop, E, lst) <=> e.key \notin lst /\ KeptBy(drop, {e}) # {}
    /\ \A f \in Pending(drop, E, lst) : ~Less(f.key, e.key)

\* A step of the merge settles the entry it takes and nothing else.
LEMMA PendingPop ==
    ASSUME NEW E \in SUBSET TableEntry, Versions(E), NEW e \in E, LeastOf(E, e),
           NEW E2, Leaves(E, e, E2), NEW lst, LastOK(lst, E), NEW drop \in BOOLEAN
    PROVE  Settles(E, e, E2, lst, drop)
<1>0. E = {e} \cup E2
  BY DEF Leaves
<1>1. LastOK({e.key}, E2)
  BY <1>0, KeysAreBytes DEF LastOK, LeastOf
<1>2. \A f \in E : f.seq \in Nat /\ f.key \in Seq(Nat)
  BY KeysAreBytes DEF TableEntry
<1>3. ASSUME NEW x \in Pending(drop, E2, {e.key}) PROVE x \in Pending(drop, E, lst) \ {e}
  <2>1. x \in E2 /\ x \in E /\ x.key # e.key /\ (x.val = Tombstone => ~drop)
    BY <1>0, <1>3 DEF Pending, KeptBy, Top
  <2>2. \A f \in E2 : f.key = x.key => f.seq <= x.seq
    BY <1>3 DEF Pending, KeptBy, Top
  <2>3. \A f \in E : f.key = x.key => f.seq <= x.seq
    BY <1>0, <2>1, <2>2
  <2>4. x.key \notin lst
    <3> SUFFICES ASSUME x.key \in lst PROVE FALSE
      OBVIOUS
    <3>1. ~Less(e.key, x.key) /\ ~Less(x.key, e.key)
      BY <2>1 DEF LastOK, LeastOf
    <3> QED
      BY <1>2, <2>1, <3>1, LessTotal
  <2> QED
    BY <2>1, <2>3, <2>4 DEF Pending, KeptBy, Top
<1>4. ASSUME NEW x \in Pending(drop, E, lst), x # e PROVE x \in Pending(drop, E2, {e.key})
  <2>1. x \in E2 /\ x \in E /\ (x.val = Tombstone => ~drop) /\ \A f \in E : f.key = x.key => f.seq <= x.seq
    BY <1>0, <1>4 DEF Pending, KeptBy, Top
  <2>2. x.key # e.key
    <3> SUFFICES ASSUME x.key = e.key PROVE FALSE
      OBVIOUS
    <3>1. e.seq <= x.seq /\ x.seq <= e.seq /\ e.seq \in Nat /\ x.seq \in Nat
      BY <1>2, <2>1 DEF LeastOf
    <3>2. e.seq = x.seq
      BY <3>1
    <3> QED
      BY <1>4, <2>1, <3>2 DEF Versions
  <2> QED
    BY <1>0, <2>1, <2>2 DEF Pending, KeptBy, Top
<1>5. Pending(drop, E2, {e.key}) = Pending(drop, E, lst) \ {e}
  BY <1>3, <1>4
<1>6. e \in Top(E)
  BY DEF Top, LeastOf
<1>7. e \in Pending(drop, E, lst) <=> e.key \notin lst /\ KeptBy(drop, {e}) # {}
  BY <1>6 DEF Pending, KeptBy
<1>8. \A f \in Pending(drop, E, lst) : ~Less(f.key, e.key)
  BY DEF Pending, KeptBy, Top, LeastOf
<1> QED
  BY <1>1, <1>5, <1>7, <1>8 DEF Settles

\* The entries of the list from place n on.
After(es, n) == {es[i] : i \in n + 1 .. Len(es)}

\* The least of them is the next.
LEMMA NextInList ==
    ASSUME NEW es, Sorted(es), NEW n \in 0 .. Len(es), NEW e \in After(es, n),
           \A f \in After(es, n) : ~Less(f.key, e.key)
    PROVE  n + 1 \in 1 .. Len(es) /\ e = es[n + 1] /\ After(es, n) \ {e} = After(es, n + 1)
<1>1. /\ Len(es) \in Nat /\ \A i \in 1 .. Len(es) : es[i] \in TableEntry
      /\ \A i, j \in 1 .. Len(es) : i < j => Less(es[i].key, es[j].key)
  BY DEF Sorted
<1>2. PICK i \in n + 1 .. Len(es) : e = es[i]
  BY DEF After
<1>3. n + 1 \in 1 .. Len(es) /\ i \in 1 .. Len(es) /\ n + 1 \in n + 1 .. Len(es)
  BY <1>1
<1>4. i = n + 1
  <2>1. ~(n + 1 < i)
    BY <1>1, <1>2, <1>3 DEF After
  <2> QED
    BY <1>1, <2>1
<1>5. e = es[n + 1]
  BY <1>2, <1>4
<1>6. \A x : x \in After(es, n) \ {e} <=> x \in After(es, n + 1)
  <2>1. ASSUME NEW j \in n + 1 .. Len(es), es[j] # e PROVE j \in n + 1 + 1 .. Len(es)
    BY <1>1, <1>5, <2>1
  <2>2. ASSUME NEW j \in n + 1 + 1 .. Len(es) PROVE j \in n + 1 .. Len(es) /\ es[j] # e
    <3>1. j \in 1 .. Len(es) /\ n + 1 < j
      BY <1>1
    <3>2. Less(e.key, es[j].key) /\ ~Less(e.key, e.key)
      BY <1>1, <1>3, <1>5, <3>1, KeyOrder
    <3> QED
      BY <1>1, <3>1, <3>2
  <2> QED
    BY <2>1, <2>2 DEF After
<1> QED
  BY <1>3, <1>5, <1>6

-----------------------------------------------------------------------------
(***************************************************************************)
(* The start of a merge.                                                   *)
(***************************************************************************)
Started(ins, hp, inp) ==
    /\ hp = UNION {Items(i, InOrder(ins[i])) : i \in DOMAIN ins}
    /\ inp = [i \in DOMAIN ins |-> Rest(InOrder(ins[i]))]

\* Every input is listed, and its first entry is in the heap.
LEMMA QueueStart ==
    ASSUME NEW ins \in Inputs, NEW hp, NEW inp, Started(ins, hp, inp)
    PROVE  Queue(hp, inp) /\ Left(hp, inp) = UNION {ins[i] : i \in DOMAIN ins}
<1> DEFINE s == [i \in DOMAIN ins |-> InOrder(ins[i])]
           new(i) == [idx |-> i, ent |-> Head(s[i])]
           U == UNION {ins[i] : i \in DOMAIN ins}
<1>1. ASSUME NEW i \in DOMAIN ins PROVE Keyed(ins[i])
  <2>1. ins[i] \in SUBSET TableEntry
    BY InputAssumption
  <2> QED
    BY <2>1, InputAssumption DEF Keyed
<1>2. \A i \in DOMAIN ins : Sorted(s[i]) /\ ins[i] = {s[i][n] : n \in 1 .. Len(s[i])}
  BY <1>1, InOrderListed DEF Listed
<1>3. DOMAIN inp = DOMAIN ins /\ inp = [i \in DOMAIN inp |-> inp[i]]
  BY DEF Started
<1>4. \A i \in DOMAIN ins : inp[i] = Rest(s[i])
  BY DEF Started
<1>5. \A h : h \in hp <=> \E i \in DOMAIN ins : s[i] # << >> /\ h = new(i)
  <2>1. \A h : h \in hp <=> \E i \in DOMAIN ins : h \in Items(i, s[i])
    BY DEF Started
  <2>2. \A i \in DOMAIN ins : \A h : h \in Items(i, s[i]) <=> s[i] # << >> /\ h = new(i)
    BY DEF Items
  <2> QED
    BY <2>1, <2>2
<1>6. Versions(U)
  BY InputAssumption DEF Versions
<1>7. ASSUME NEW i \in DOMAIN ins
      PROVE  /\ s[i] = << >> => inp[i] = << >> /\ Len(inp[i]) = 0 /\ ins[i] = {} /\ Len(s[i]) = 0
             /\ s[i] # << >> => /\ Len(inp[i]) = Len(s[i]) - 1 /\ Len(s[i]) \in Nat /\ Len(s[i]) > 0
                                /\ Head(s[i]) = s[i][1] /\ Head(s[i]) \in TableEntry
                                /\ \A n \in 1 .. Len(s[i]) - 1 : /\ inp[i][n] = s[i][n + 1] /\ n + 1 \in 1 .. Len(s[i])
                                                                 /\ Less(Head(s[i]).key, inp[i][n].key)
             /\ Sorted(inp[i])
  <2>1. CASE s[i] = << >>
    <3>1. inp[i] = s[i]
      BY <1>4, <2>1 DEF Rest
    <3>2. Len(s[i]) = 0 /\ ins[i] = {s[i][n] : n \in 1 .. 0}
      BY <1>2, <2>1
    <3>3. ins[i] = {}
      BY <3>2
    <3> HIDE DEF s
    <3> QED
      BY <1>2, <2>1, <3>1, <3>2, <3>3
  <2>2. CASE s[i] # << >>
    <3> PICK t : t = s[i]
      OBVIOUS
    <3>1. inp[i] = Tail(t) /\ Sorted(t) /\ t # << >>
      BY <1>2, <1>4, <2>2 DEF Rest
    <3> HIDE DEF s
    <3> QED
      BY <2>2, <3>1, SortedTail
  <2> QED
    BY <2>1, <2>2
<1> HIDE DEF s
<1>8. \A i \in DOMAIN ins : new(i).idx = i /\ new(i).ent = Head(s[i])
  OBVIOUS
<1> HIDE DEF new
<1>9. ASSUME NEW e PROVE e \in Left(hp, inp) <=> e \in U
  <2>1. e \in U <=> \E i \in DOMAIN ins : \E n \in 1 .. Len(s[i]) : e = s[i][n]
    BY <1>2
  <2>2. e \in Left(hp, inp) <=> \/ \E h \in hp : e = h.ent
                                \/ \E i \in DOMAIN inp : \E n \in 1 .. Len(inp[i]) : e = inp[i][n]
    BY DEF Left
  <2>3. ASSUME NEW i \in DOMAIN ins
        PROVE  (\E n \in 1 .. Len(s[i]) : e = s[i][n]) <=>
                   (s[i] # << >> /\ e = Head(s[i])) \/ \E n \in 1 .. Len(inp[i]) : e = inp[i][n]
    <3>1. CASE s[i] = << >>
      BY <1>7, <3>1
    <3>2. CASE s[i] # << >>
      <4> PICK l : l = Len(s[i])
        OBVIOUS
      <4>1. /\ Len(inp[i]) = l - 1 /\ l \in Nat /\ l > 0 /\ Head(s[i]) = s[i][1]
            /\ \A n \in 1 .. l - 1 : inp[i][n] = s[i][n + 1] /\ n + 1 \in 1 .. l
        BY <1>7, <3>2
      <4>2. ASSUME NEW n \in 1 .. l PROVE n = 1 \/ (n - 1 \in 1 .. l - 1 /\ inp[i][n - 1] = s[i][n])
        <5>1. n # 1 => n - 1 \in 1 .. l - 1 /\ (n - 1) + 1 = n
          BY <4>1
        <5> QED
          BY <4>1, <5>1
      <4>3. 1 \in 1 .. l
        BY <4>1
      <4>4. (\E n \in 1 .. l : e = s[i][n]) => e = s[i][1] \/ \E n \in 1 .. l - 1 : e = inp[i][n]
        BY <4>2, Zenon
      <4>5. e = s[i][1] \/ (\E n \in 1 .. l - 1 : e = inp[i][n]) => \E n \in 1 .. l : e = s[i][n]
        BY <4>1, <4>3, Zenon
      <4> QED
        BY <3>2, <4>1, <4>4, <4>5
    <3> QED
      BY <3>1, <3>2
  <2>4. (\E h \in hp : e = h.ent) <=> \E i \in DOMAIN ins : s[i] # << >> /\ e = Head(s[i])
    BY <1>5, <1>8
  <2> QED
    BY <1>3, <2>1, <2>2, <2>3, <2>4, Zenon
<1>10. Left(hp, inp) = U
  BY <1>9
<1>11. \A h \in hp : h.idx \in DOMAIN ins /\ h.ent \in TableEntry /\ h = new(h.idx) /\ s[h.idx] # << >>
  BY <1>5, <1>7, <1>8
<1>12. \A i \in DOMAIN inp : Sorted(inp[i])
  BY <1>3, <1>7
<1>13. \A g, h \in hp : g.idx = h.idx => g = h
  BY <1>11
<1>14. ASSUME NEW h \in hp, NEW n \in 1 .. Len(inp[h.idx]) PROVE Less(h.ent.key, inp[h.idx][n].key)
  <2>1. h.idx \in DOMAIN ins /\ s[h.idx] # << >> /\ h.ent = Head(s[h.idx])
    BY <1>8, <1>11
  <2> QED
    BY <1>7, <1>14, <2>1
<1>15. ASSUME NEW i \in DOMAIN inp, inp[i] # << >> PROVE \E h \in hp : h.idx = i
  BY <1>3, <1>5, <1>7, <1>8, <1>15
<1>16. Versions(Left(hp, inp))
  BY <1>6, <1>10
<1>17. Queue(hp, inp)
  BY <1>3, <1>11, <1>12, <1>13, <1>14, <1>15, <1>16 DEF Queue
<1> QED
  BY <1>10, <1>17

\* The entries of the inputs are finitely many.
LEMMA InputsFinite ==
    ASSUME NEW ins \in Inputs
    PROVE  IsFiniteSet(UNION {ins[i] : i \in DOMAIN ins})
<1> DEFINE C == {ins[i] : i \in DOMAIN ins}
<1>1. ins \in Seq(SUBSET TableEntry) /\ \A i \in DOMAIN ins : IsFiniteSet(ins[i])
  BY InputAssumption
<1>2. DOMAIN ins = 1 .. Len(ins) /\ Len(ins) \in Nat
  BY <1>1
<1>3. IsFiniteSet(DOMAIN ins)
  BY <1>2, FS_Interval
<1>4. IsFiniteSet(C)
  <2> DEFINE f == [i \in DOMAIN ins |-> ins[i]]
  <2>1. f \in Surjection(DOMAIN ins, C)
    BY DEF Surjection
  <2> QED
    BY <1>3, <2>1, FS_Surjection
<1>5. \A S \in C : IsFiniteSet(S)
  BY <1>1
<1> QED
  BY <1>4, <1>5, FS_UNION

-----------------------------------------------------------------------------
(***************************************************************************)
(* The Writer in a merge: it has the first entries of the list.            *)
(***************************************************************************)
\* The highest of one number more.
LEMMA HighestAdd ==
    ASSUME NEW n \in Nat, NEW S \in SUBSET (0 .. n), NEW x \in 0 .. n
    PROVE  Highest(S \cup {x}) = IF x > Highest(S) THEN x ELSE Highest(S)
<1> DEFINE h == Highest(S)
           T == S \cup {x}
           m == IF x > h THEN x ELSE h
<1>1. h \in 0 .. n /\ \A s \in S : s <= h
  BY HighestProperty
<1>2. h \in S \/ (S = {} /\ h = 0)
  <2>1. CASE S = {}
    BY <2>1 DEF Highest
  <2>2. CASE S # {}
    <3>1. \E k \in S : \A s \in S : s <= k
      BY <2>2, GreatestNatural
    <3> QED
      BY <2>2, <3>1 DEF Highest
  <2> QED
    BY <2>1, <2>2
<1> HIDE DEF h
<1>3. m \in T /\ \A t \in T : t <= m
  BY <1>1, <1>2
<1>4. \A k \in T : (\A t \in T : t <= k) => k = m
  <2> SUFFICES ASSUME NEW k \in T, \A t \in T : t <= k PROVE k = m
    OBVIOUS
  <2>1. k <= m /\ m <= k /\ k \in Nat /\ m \in Nat
    BY <1>1, <1>3
  <2> HIDE DEF m
  <2> QED
    BY <2>1
<1> HIDE DEF m
<1>5. Highest(T) = m
  BY <1>3, <1>4 DEF Highest
<1> QED
  BY <1>5 DEF m, h

FirstSeqs(es, n) == {es[i].seq : i \in 1 .. n}

Written(v, es) ==
    /\ IsWriter(v)
    /\ v.keys \in Seq(Key) /\ Len(v.keys) <= Len(es)
    /\ \A i \in 1 .. Len(v.keys) : v.keys[i] = es[i].key
    /\ v.maxSeq = Highest(FirstSeqs(es, Len(v.keys)))

\* Add goes on with the list.
LEMMA WrittenAdd ==
    ASSUME NEW v, NEW es, Sorted(es), Written(v, es), NEW n, n = Len(v.keys), n + 1 \in 1 .. Len(es),
           NEW e, e = es[n + 1], NEW a, a = Add(v, e)
    PROVE  Written(a, es) /\ a.blockSize = v.blockSize /\ Len(a.keys) = n + 1
<1>1. /\ es \in Seq(TableEntry) /\ Len(es) \in Nat /\ \A i \in 1 .. Len(es) : es[i] \in TableEntry
      /\ v.keys \in Seq(Key) /\ n \in Nat /\ n + 1 \in 1 .. Len(es) /\ e \in TableEntry
  BY DEF Sorted, Written
<1>2. /\ IsWriter(a) /\ a.blockSize = v.blockSize /\ a.keys = Append(v.keys, e.key)
      /\ a.maxSeq = IF e.seq > v.maxSeq THEN e.seq ELSE v.maxSeq
  <2>1. IsWriter(v)
    BY DEF Written
  <2>2. WriterAdded(v, e, a)
    BY <2>1, AddFacts
  <2> QED
    BY <2>2 DEF WriterAdded
<1>3. e.key \in Key /\ e.seq \in 0 .. MaxUint
  BY <1>1 DEF TableEntry
<1>4. /\ a.keys \in Seq(Key) /\ Len(a.keys) = n + 1 /\ a.keys[n + 1] = e.key
      /\ \A i \in 1 .. n : a.keys[i] = v.keys[i]
  BY <1>1, <1>2, <1>3
<1>5. \A i \in 1 .. n + 1 : a.keys[i] = es[i].key
  <2>1. \A i \in 1 .. n + 1 : i \in 1 .. n \/ i = n + 1
    BY <1>1
  <2>2. \A i \in 1 .. n : v.keys[i] = es[i].key
    BY DEF Written
  <2> QED
    BY <1>4, <2>1, <2>2
<1>6. FirstSeqs(es, n + 1) = FirstSeqs(es, n) \cup {e.seq} /\ FirstSeqs(es, n) \in SUBSET (0 .. MaxUint)
  <2>1. \A i : i \in 1 .. n + 1 <=> i \in 1 .. n \/ i = n + 1
    BY <1>1
  <2>2. \A i \in 1 .. n : es[i].seq \in 0 .. MaxUint
    BY <1>1 DEF TableEntry
  <2> QED
    BY <2>1, <2>2 DEF FirstSeqs
<1>7. a.maxSeq = Highest(FirstSeqs(es, n + 1))
  <2>1. v.maxSeq = Highest(FirstSeqs(es, n))
    BY DEF Written
  <2>2. Highest(FirstSeqs(es, n) \cup {e.seq}) =
            IF e.seq > Highest(FirstSeqs(es, n)) THEN e.seq ELSE Highest(FirstSeqs(es, n))
    BY <1>3, <1>6, MaxUintFacts, HighestAdd
  <2> QED
    BY <1>2, <1>6, <2>1, <2>2
<1>8. Written(a, es)
  BY <1>1, <1>2, <1>4, <1>5, <1>7 DEF Written
<1> QED
  BY <1>2, <1>4, <1>8

-----------------------------------------------------------------------------
(***************************************************************************)
(* The merge: what is pending is the rest of the list.                     *)
(***************************************************************************)
Progress(hp, inp, lst, v, es, drop) ==
    /\ Queue(hp, inp) /\ LastOK(lst, Left(hp, inp)) /\ Written(v, es)
    /\ Pending(drop, Left(hp, inp), lst) = After(es, Len(v.keys))

\* The entry is left out; or it is the next of the list, and it is written.
Taken(v, es, lst, drop, e, v2) ==
    \/ (e.key \in lst \/ KeptBy(drop, {e}) = {}) /\ v2 = v
    \/ /\ e.key \notin lst /\ KeptBy(drop, {e}) # {}
       /\ Len(v.keys) + 1 \in 1 .. Len(es) /\ e = es[Len(v.keys) + 1] /\ v2 = Add(v, e)

LeastItem(hp, item) == item \in hp /\ \A other \in hp \ {item} : Before(item, other)

Writes(v, lst, drop, e, v2) == v2 = IF e.key \in lst \/ KeptBy(drop, {e}) = {} THEN v ELSE Add(v, e)

\* The merge writes the list.
LEMMA ProgressStep ==
    ASSUME NEW hp, NEW inp, NEW lst, NEW v, NEW es, NEW drop \in BOOLEAN, Sorted(es),
           Progress(hp, inp, lst, v, es, drop), NEW item, LeastItem(hp, item),
           NEW hp2, NEW inp2, Popped(hp, inp, item, hp2, inp2), NEW v2, Writes(v, lst, drop, item.ent, v2)
    PROVE  /\ Progress(hp2, inp2, {item.ent.key}, v2, es, drop) /\ v2.blockSize = v.blockSize
           /\ Taken(v, es, lst, drop, item.ent, v2)
<1>a. PICK e : e = item.ent
  OBVIOUS
<1>b. PICK E : E = Left(hp, inp)
  OBVIOUS
<1>c. PICK E2 : E2 = Left(hp2, inp2)
  OBVIOUS
<1>d. PICK n : n = Len(v.keys)
  OBVIOUS
<1>1. item \in hp /\ Queue(hp, inp) /\ LastOK(lst, E) /\ Written(v, es) /\ Pending(drop, E, lst) = After(es, n)
  BY <1>b, <1>d DEF Progress, LeastItem
<1>2. Queue(hp2, inp2) /\ E = {e} \cup E2
  BY <1>a, <1>b, <1>c, <1>1, QueuePop
<1>3. E \in SUBSET TableEntry /\ Versions(E) /\ e \in E
  BY <1>a, <1>b, <1>1, <1>2, LeftType DEF Queue
<1>4. LeastOf(E, e)
  <2>1. \A other \in hp \ {item} : Before(item, other)
    BY DEF LeastItem
  <2>2. \A f \in E : ~Less(f.key, e.key) /\ (f.key = e.key => f.seq <= e.seq)
    BY <1>a, <1>b, <1>1, <2>1, PopIsLeast
  <2> QED
    BY <2>2 DEF LeastOf
<1>5. /\ LastOK({e.key}, E2)
      /\ Pending(drop, E2, {e.key}) = Pending(drop, E, lst) \ {e}
      /\ e \in Pending(drop, E, lst) <=> e.key \notin lst /\ KeptBy(drop, {e}) # {}
      /\ \A f \in Pending(drop, E, lst) : ~Less(f.key, e.key)
  <2>1. Leaves(E, e, E2)
    BY <1>2 DEF Leaves
  <2>2. Settles(E, e, E2, lst, drop)
    BY <1>1, <1>3, <1>4, <2>1, PendingPop
  <2> QED
    BY <2>2 DEF Settles
<1>6. n \in 0 .. Len(es) /\ Len(es) \in Nat
  BY <1>d, <1>1 DEF Written, Sorted
<1>7. CASE e.key \in lst \/ KeptBy(drop, {e}) = {}
  <2>1. v2 = v /\ e \notin Pending(drop, E, lst)
    BY <1>a, <1>5, <1>7 DEF Writes
  <2>2. Pending(drop, E2, {e.key}) = After(es, n)
    BY <1>1, <1>5, <2>1
  <2> QED
    BY <1>a, <1>c, <1>d, <1>1, <1>2, <1>5, <1>7, <2>1, <2>2 DEF Progress, Taken
<1>8. CASE e.key \notin lst /\ KeptBy(drop, {e}) # {}
  <2>1. v2 = Add(v, e) /\ e \in After(es, n) /\ \A f \in After(es, n) : ~Less(f.key, e.key)
    BY <1>a, <1>1, <1>5, <1>8 DEF Writes
  <2>2. n + 1 \in 1 .. Len(es) /\ e = es[n + 1] /\ After(es, n) \ {e} = After(es, n + 1)
    BY <1>6, <2>1, NextInList
  <2>3. Written(v2, es) /\ v2.blockSize = v.blockSize /\ Len(v2.keys) = n + 1
    BY <1>d, <1>1, <2>1, <2>2, WrittenAdd
  <2>4. Pending(drop, E2, {e.key}) = After(es, Len(v2.keys))
    BY <1>1, <1>5, <2>2, <2>3
  <2>5. Taken(v, es, lst, drop, e, v2)
    BY <1>d, <1>8, <2>1, <2>2 DEF Taken
  <2> QED
    BY <1>a, <1>c, <1>2, <1>5, <2>3, <2>4, <2>5 DEF Progress
<1> QED
  BY <1>7, <1>8

\* When the heap is empty, everything is written.
LEMMA ProgressEnd ==
    ASSUME NEW inp, NEW lst, NEW v, NEW es, NEW drop \in BOOLEAN, Sorted(es),
           Progress({}, inp, lst, v, es, drop)
    PROVE  Len(v.keys) = Len(es) /\ Len(es) \in Nat
<1>1. Queue({}, inp) /\ Written(v, es) /\ Pending(drop, Left({}, inp), lst) = After(es, Len(v.keys))
  BY DEF Progress
<1>2. \A i \in DOMAIN inp : inp[i] = << >>
  BY <1>1 DEF Queue
<1>3. \A e : e \notin Left({}, inp)
  <2> SUFFICES ASSUME NEW i \in DOMAIN inp, NEW n \in 1 .. Len(inp[i]) PROVE FALSE
    BY LeftMember
  <2>1. Len(inp[i]) = 0
    BY <1>2
  <2> QED
    BY <2>1
<1>4. After(es, Len(v.keys)) = {}
  BY <1>1, <1>3 DEF Pending, KeptBy, Top
<1>5. Len(v.keys) \in Nat /\ Len(es) \in Nat /\ Len(v.keys) <= Len(es)
  BY <1>1 DEF Written, Sorted
<1>6. ASSUME Len(v.keys) < Len(es) PROVE FALSE
  <2>1. Len(es) \in Len(v.keys) + 1 .. Len(es)
    BY <1>5, <1>6
  <2> QED
    BY <1>4, <2>1 DEF After
<1> QED
  BY <1>5, <1>6

-----------------------------------------------------------------------------
(***************************************************************************)
(* The invariant of the merge.                                             *)
(***************************************************************************)
Footer(t, E) == t.maxSeq = Highest(SeqsOf(E)) /\ t.entries = Cardinality(E)

MergeInv ==
    /\ opts \in Options
    /\ Keyed(expected)
    /\ Merging => Progress(heap, input, last, w, InOrder(expected), opts.DropTombstones)
    /\ ~Merging => heap = {} /\ Footer(table, expected)

\* A new Writer has written nothing.
LEMMA WrittenNew ==
    ASSUME NEW es \in Seq(TableEntry), NEW n
    PROVE  Written(NewWriter(n), es) /\ NewWriter(n).keys = << >> /\ NewWriter(n).blockSize = n
<1> PICK v : v = NewWriter(n)
  OBVIOUS
<1>1. /\ v = [blockSize |-> n, buf |-> << >>, restarts |-> << >>, blockEntries |-> 0, index |-> << >>,
              keys |-> << >>, maxSeq |-> 0]
  BY DEF NewWriter
<1>2. IsWriter(v) /\ v.keys = << >> /\ v.maxSeq = 0 /\ v.blockSize = n
  <2>1. IsWriter(v)
    BY <1>1, Zenon DEF IsWriter
  <2> QED
    BY <1>1, <2>1
<1>3. Len(v.keys) = 0 /\ v.keys \in Seq(Key) /\ 0 <= Len(es)
  BY <1>2
<1>4. FirstSeqs(es, 0) = {}
  BY DEF FirstSeqs
<1>5. Highest(FirstSeqs(es, 0)) = 0
  BY <1>4 DEF Highest
<1>6. \A i \in 1 .. 0 : v.keys[i] = es[i].key
  OBVIOUS
<1>7. Written(v, es)
  BY <1>2, <1>3, <1>5, <1>6 DEF Written
<1> QED
  BY <1>2, <1>7

\* The newest versions have each key once.
LEMMA TopKeyed ==
    ASSUME NEW U \in SUBSET TableEntry, IsFiniteSet(U), Versions(U), NEW drop
    PROVE  Keyed(KeptBy(drop, Top(U)))
<1>1. Top(U) \in SUBSET U /\ KeptBy(drop, Top(U)) \in SUBSET Top(U)
  BY DEF Top, KeptBy
<1>2. IsFiniteSet(KeptBy(drop, Top(U)))
  BY <1>1, FS_Subset
<1>3. ASSUME NEW e \in Top(U), NEW f \in Top(U), e.key = f.key PROVE e = f
  <2>1. e.seq <= f.seq /\ f.seq <= e.seq /\ e \in U /\ f \in U
    BY <1>3 DEF Top
  <2>2. e.seq \in Nat /\ f.seq \in Nat
    BY <2>1 DEF TableEntry
  <2>3. e.seq = f.seq
    BY <2>1, <2>2
  <2> QED
    BY <1>3, <2>1, <2>3 DEF Versions
<1> QED
  BY <1>1, <1>2, <1>3 DEF Keyed

\* A merge begins with all of its list to write.
LEMMA MergeInvInit == MergeInit => MergeInv
<1> SUFFICES ASSUME MergeInit PROVE MergeInv
  OBVIOUS
<1>1. PICK ins \in Inputs :
          /\ input = [i \in DOMAIN ins |-> Rest(InOrder(ins[i]))]
          /\ heap = UNION {Items(i, InOrder(ins[i])) : i \in DOMAIN ins}
          /\ expected = Kept(MergeFiles({ins[i] : i \in DOMAIN ins}))
  BY DEF MergeInit
<1> DEFINE U == UNION {ins[i] : i \in DOMAIN ins}
           es == InOrder(expected)
           drop == opts.DropTombstones
<1>2. opts \in Options /\ last = {} /\ w = NewWriter(opts.BlockSize)
  BY DEF MergeInit
<1>3. drop \in BOOLEAN /\ opts.BlockSize \in Nat \ {0}
  BY <1>2, MergeAssumption DEF Options
<1>4. Started(ins, heap, input)
  BY <1>1 DEF Started
<1>5. Queue(heap, input) /\ Left(heap, input) = U
  BY <1>4, QueueStart
<1>6. IsFiniteSet(U) /\ U \in SUBSET TableEntry /\ Versions(U)
  BY <1>5, InputsFinite, LeftType DEF Queue
<1>7. expected = KeptBy(drop, Top(U))
  BY <1>1 DEF Kept, KeptBy, MergeFiles
<1>8. Keyed(expected)
  BY <1>6, <1>7, TopKeyed
<1>9. Listed(es, expected) /\ es \in Seq(TableEntry)
  BY <1>8, InOrderListed DEF Listed, Sorted
<1>10. Written(w, es) /\ w.keys = << >> /\ w.blockSize = opts.BlockSize
  BY <1>2, <1>9, WrittenNew
<1> HIDE DEF U, es
<1>11. Pending(drop, U, {}) = After(es, Len(w.keys))
  <2>1. Len(w.keys) = 0
    BY <1>10
  <2>2. After(es, 0) = expected
    BY <1>9 DEF After, Listed
  <2>3. Pending(drop, U, {}) = expected
    BY <1>7 DEF Pending
  <2> QED
    BY <2>1, <2>2, <2>3
<1>12. LastOK({}, U)
  BY DEF LastOK
<1>13. Progress(heap, input, last, w, es, drop)
  BY <1>2, <1>5, <1>10, <1>11, <1>12 DEF Progress
<1>14. Merging
  BY <1>3, <1>10 DEF Merging
<1> QED
  BY <1>2, <1>8, <1>13, <1>14 DEF MergeInv, es

\* A step of the merge.
LEMMA MergeInvStep ==
    ASSUME MergeInv, NEW item \in heap, MergeStep(item)
    PROVE  /\ MergeInv' /\ Merging' /\ Merging
           /\ Taken(w, InOrder(expected), last, opts.DropTombstones, item.ent, w')
<1> PICK es : es = InOrder(expected)
  OBVIOUS
<1> PICK drop : drop = opts.DropTombstones
  OBVIOUS
<1>1. opts' = opts /\ expected' = expected /\ table' = table /\ last' = {item.ent.key}
  BY DEF MergeStep
<1>2. Merging /\ opts \in Options /\ Keyed(expected) /\ Progress(heap, input, last, w, es, drop)
  BY DEF MergeInv
<1>3. drop \in BOOLEAN
  BY <1>2 DEF Options
<1>4. Sorted(es)
  BY <1>2, InOrderListed DEF Listed
<1>5. LeastItem(heap, item) /\ Popped(heap, input, item, heap', input')
  BY DEF MergeStep, Pop, LeastItem, Popped
<1>6. Kept({item.ent}) = KeptBy(drop, {item.ent})
  BY DEF Kept, KeptBy
<1>7. Writes(w, last, drop, item.ent, w')
  BY <1>6 DEF MergeStep, Writes
<1>8. /\ Progress(heap', input', {item.ent.key}, w', es, drop) /\ w'.blockSize = w.blockSize
      /\ Taken(w, es, last, drop, item.ent, w')
  BY <1>2, <1>3, <1>4, <1>5, <1>7, ProgressStep
<1>9. Merging'
  BY <1>2, <1>8 DEF Merging
<1>10. Progress(heap, input, last, w, InOrder(expected), opts.DropTombstones)'
  <2>1. InOrder(expected)' = es /\ (opts.DropTombstones)' = drop
    BY <1>1
  <2> QED
    BY <1>1, <1>8, <2>1
<1>11. MergeInv'
  BY <1>1, <1>2, <1>9, <1>10 DEF MergeInv
<1> QED
  BY <1>2, <1>8, <1>9, <1>11

\* The footer of what the Writer has written.
LEMMA FooterWritten ==
    ASSUME NEW E, Keyed(E), NEW v, Written(v, InOrder(E)), Len(v.keys) = Len(InOrder(E))
    PROVE  Footer(FinishTable(v), E)
<1>a. PICK es : es = InOrder(E)
  OBVIOUS
<1>1. Listed(es, E) /\ Len(es) = Cardinality(E) /\ v.maxSeq = Highest(FirstSeqs(es, Len(es))) /\ Len(v.keys) = Len(es)
  BY <1>a, InOrderListed DEF Written
<1>2. FirstSeqs(es, Len(es)) = SeqsOf(E)
  <2>1. E = {es[i] : i \in 1 .. Len(es)}
    BY <1>1 DEF Listed
  <2>2. \A x : x \in FirstSeqs(es, Len(es)) <=> x \in SeqsOf(E)
    BY <2>1 DEF FirstSeqs, SeqsOf
  <2> QED
    BY <2>2
<1>3. FinishTable(v).maxSeq = v.maxSeq /\ FinishTable(v).entries = Len(v.keys)
  BY DEF FinishTable
<1> QED
  BY <1>1, <1>2, <1>3 DEF Footer

\* Finish.
LEMMA MergeInvFinish ==
    ASSUME MergeInv, MergeFinish
    PROVE  MergeInv' /\ ~Merging' /\ Len(w.keys) = Len(InOrder(expected))
<1> PICK es : es = InOrder(expected)
  OBVIOUS
<1>1. /\ opts' = opts /\ expected' = expected /\ table' = FinishTable(w) /\ heap = {} /\ heap' = {} /\ Merging
      /\ w' = NewWriter(0)
  BY DEF MergeFinish
<1>2. opts \in Options /\ Keyed(expected) /\ Progress({}, input, last, w, es, opts.DropTombstones)
  BY <1>1 DEF MergeInv
<1>3. Sorted(es) /\ opts.DropTombstones \in BOOLEAN
  BY <1>2, InOrderListed DEF Listed, Options
<1>4. Len(w.keys) = Len(es) /\ Written(w, es)
  BY <1>2, <1>3, ProgressEnd DEF Progress
<1>5. Footer(table', expected)
  BY <1>1, <1>2, <1>4, FooterWritten
<1>6. ~Merging'
  <2>1. w'.blockSize = 0
    BY <1>1 DEF NewWriter
  <2> QED
    BY <2>1 DEF Merging
<1>7. MergeInv'
  BY <1>1, <1>2, <1>5, <1>6 DEF MergeInv
<1> QED
  BY <1>4, <1>6, <1>7

\* Readers change nothing of it.
LEMMA MergeInvKept ==
    ASSUME MergeInv, UNCHANGED mergeVars
    PROVE  MergeInv' /\ (Merging' <=> Merging)
  BY DEF MergeInv, mergeVars, Merging

\* Every step keeps the invariant.
LEMMA MergeInvNext == MergeInv /\ [MergeNext]_<<mergeVars, readVars>> => MergeInv'
<1> SUFFICES ASSUME MergeInv, [MergeNext]_<<mergeVars, readVars>> PROVE MergeInv'
  OBVIOUS
<1>1. CASE \E item \in heap : MergeStep(item)
  BY <1>1, MergeInvStep
<1>2. CASE MergeFinish
  BY <1>2, MergeInvFinish
<1>3. CASE NewIterator \/ Next \/ \E k \in Key : Seek(k)
  <2>1. UNCHANGED mergeVars
    BY <1>3 DEF NewIterator, Next, Seek, Place
  <2> QED
    BY <2>1, MergeInvKept
<1>4. CASE UNCHANGED <<mergeVars, readVars>>
  BY <1>4, MergeInvKept
<1> QED
  BY <1>1, <1>2, <1>3, <1>4 DEF MergeNext

\* The merge keeps to its list, whatever the inputs: the footer of the finished table has the highest
\* sequence number and the number of the entries it was to write.
THEOREM FootersMatch == MergeSpec => []FooterMatches
<1>1. MergeInv => FooterMatches
  BY DEF MergeInv, FooterMatches, Footer
<1> QED
  BY <1>1, MergeInvInit, MergeInvNext, PTL DEF MergeSpec

-----------------------------------------------------------------------------
(***************************************************************************)
(* The reader: its iterator is on the entry that is due.                   *)
(***************************************************************************)
Suffix(s, m) == SubSeq(s, m, Len(s))

\* Suffixes of a list.
LEMMA SuffixFacts ==
    ASSUME NEW es \in Seq(TableEntry), NEW m \in 1 .. Len(es) + 1
    PROVE  /\ Suffix(es, 1) = es
           /\ m = Len(es) + 1 => Suffix(es, m) = << >>
           /\ m # Len(es) + 1 =>
                 Suffix(es, m) # << >> /\ Head(Suffix(es, m)) = es[m] /\ Tail(Suffix(es, m)) = Suffix(es, m + 1)
           /\ Suffix(es, m) \in Seq(TableEntry) /\ Len(Suffix(es, m)) = (Len(es) + 1) - m
           /\ \A i \in 1 .. (Len(es) + 1) - m : Suffix(es, m)[i] = es[(m - 1) + i]
<1>1. PICK l \in Nat : l = Len(es)
  OBVIOUS
<1>2. m \in 1 .. l + 1
  BY <1>1, Zenon
<1>3. Suffix(es, 1) = es
  BY SubSeqFull, Zenon DEF Suffix
<1>a. PICK x : x = SubSeq(es, m, l)
  OBVIOUS
<1>4. x \in Seq(TableEntry) /\ Len(x) = (l + 1) - m /\ \A i \in 1 .. (l + 1) - m : x[i] = es[(m - 1) + i]
  <2>1. \A i \in m .. l : es[i] \in TableEntry
    BY <1>1, <1>2
  <2>2. m \in Int /\ l \in Int
    BY <1>2
  <2>3. /\ x \in Seq(TableEntry)
        /\ Len(x) = IF m <= l THEN l - m + 1 ELSE 0
        /\ \A i \in 1 .. l - m + 1 : x[i] = es[m + i - 1]
    BY <1>a, <2>1, <2>2, SubSeqProperties
  <2>4. (IF m <= l THEN l - m + 1 ELSE 0) = (l + 1) - m /\ l - m + 1 = (l + 1) - m
    BY <1>2
  <2>5. \A i \in 1 .. (l + 1) - m : m + i - 1 = (m - 1) + i
    BY <1>2
  <2> QED
    BY <2>3, <2>4, <2>5, Zenon
<1>5. m = l + 1 => x = << >>
  <2>1. m = l + 1 => Len(x) = 0
    BY <1>4
  <2> QED
    BY <1>4, <2>1, EmptySeq, Zenon
<1>6. ASSUME m # l + 1 PROVE x # << >> /\ Head(x) = es[m] /\ Tail(x) = SubSeq(es, m + 1, l)
  <2>1. m \in 1 .. l /\ l \in m .. l
    BY <1>2, <1>6
  <2>2. m \in 1 .. Len(es) /\ l \in m .. Len(es)
    BY <1>1, <2>1, Zenon
  <2>3. Head(x) = es[m] /\ Tail(x) = SubSeq(es, m + 1, l)
    BY <1>a, <2>2, HeadTailOfSubSeq
  <2>4. Len(x) # 0
    BY <1>4, <2>1
  <2>5. Len(<< >>) = 0
    OBVIOUS
  <2> QED
    BY <2>3, <2>4, <2>5, Zenon
<1> QED
  BY <1>1, <1>3, <1>4, <1>5, <1>6, <1>a, Zenon DEF Suffix

\* The table has the list es, and of it d is what the iterator is on and has yet to come to.
Reads(t, x, d, es) ==
    /\ FilterHas(t.bloom, es)
    /\ \E off, sh, bd, m :
          TableLaid(t.index, es, off, sh, bd) /\ IterAt(t, x, es, off, sh, bd, m) /\ d = Suffix(es, m)

\* Next.
LEMMA ReadsNext ==
    ASSUME NEW es, Sorted(es), NEW t, NEW x, NEW d, Reads(t, x, d, es)
    PROVE  Reads(t, IterNext(t, x), Rest(d), es)
<1>1. es \in Seq(TableEntry) /\ Len(es) \in Nat
  BY SortedKeys
<1>2. PICK off, sh, bd, m :
          TableLaid(t.index, es, off, sh, bd) /\ IterAt(t, x, es, off, sh, bd, m) /\ d = Suffix(es, m)
  BY Zenon DEF Reads
<1>3. m \in 1 .. Len(es) + 1
  BY <1>2, Zenon DEF IterAt
<1>4. /\ m = Len(es) + 1 => Suffix(es, m) = << >>
      /\ m # Len(es) + 1 => Suffix(es, m) # << >> /\ Tail(Suffix(es, m)) = Suffix(es, m + 1)
  BY <1>1, <1>3, SuffixFacts
<1>5. IF m = Len(es) + 1 THEN IterNext(t, x) = x ELSE IterAt(t, IterNext(t, x), es, off, sh, bd, m + 1)
  BY <1>2, IterNexts
<1>6. CASE m = Len(es) + 1
  <2>1. IterNext(t, x) = x /\ Rest(d) = d
    BY <1>2, <1>4, <1>5, <1>6, Zenon DEF Rest
  <2> QED
    BY <2>1
<1>7. CASE m # Len(es) + 1
  <2>1. IterAt(t, IterNext(t, x), es, off, sh, bd, m + 1) /\ Rest(d) = Suffix(es, m + 1)
    BY <1>2, <1>4, <1>5, <1>7, Zenon DEF Rest
  <2> QED
    BY <1>2, <2>1, Zenon DEF Reads
<1> QED
  BY <1>6, <1>7

\* An iterator that is past the end.
LEMMA ReadsEnd ==
    ASSUME NEW es, Sorted(es), NEW t, TableHolds(t, es)
    PROVE  Reads(t, PastEnd(t), << >>, es)
<1>1. es \in Seq(TableEntry) /\ Len(es) \in Nat
  BY SortedKeys
<1>2. Len(es) + 1 \in 1 .. Len(es) + 1
  BY <1>1
<1>3. Suffix(es, Len(es) + 1) = << >>
  BY <1>1, <1>2, SuffixFacts
<1>4. PICK off, sh, bd : TableLaid(t.index, es, off, sh, bd)
  BY Zenon DEF TableHolds
<1>5. IterAt(t, PastEnd(t), es, off, sh, bd, Len(es) + 1)
  BY <1>2, Zenon DEF IterAt
<1> QED
  BY <1>3, <1>4, <1>5, Zenon DEF Reads, TableHolds

\* NewIterator.
LEMMA ReadsNew ==
    ASSUME NEW es, Sorted(es), NEW t, NEW x, NEW d, Reads(t, x, d, es)
    PROVE  Reads(t, IterNew(t), es, es)
<1>1. es \in Seq(TableEntry) /\ Len(es) \in Nat
  BY SortedKeys
<1>2. PICK off, sh, bd : TableLaid(t.index, es, off, sh, bd)
  BY Zenon DEF Reads
<1>3. t.index \in Seq(Block) /\ bd[1] = 0
  BY <1>2, Zenon DEF TableLaid, IndexLaid
<1>4. 1 \in 1 .. Len(t.index) + 1
  <2>1. PICK l \in Nat : l = Len(t.index)
    BY <1>3, LengthIsNat, Zenon
  <2>2. 1 \in 1 .. l + 1
    OBVIOUS
  <2> QED
    BY <2>1, <2>2, Zenon
<1>5. IterAt(t, AtBlock(t, 1), es, off, sh, bd, bd[1] + 1)
  BY <1>2, <1>4, AtBlockIs
<1>6. 0 + 1 = 1
  OBVIOUS
<1>7. IterAt(t, IterNew(t), es, off, sh, bd, 1)
  BY <1>3, <1>5, <1>6, Zenon DEF IterNew
<1>8. Suffix(es, 1) = es
  BY <1>1, SubSeqFull, Zenon DEF Suffix
<1> QED
  BY <1>2, <1>7, <1>8, Zenon DEF Reads

\* The end of a list has the entries from one on.
LEMMA SuffixListed ==
    ASSUME NEW es, NEW E, Listed(es, E), NEW m \in 1 .. Len(es) + 1, NEW k \in Seq(Nat),
           \A j \in 1 .. m - 1 : Less(es[j].key, k), m # Len(es) + 1 => ~Less(es[m].key, k)
    PROVE  Listed(Suffix(es, m), {e \in E : ~Less(e.key, k)})
<1>1. Sorted(es) /\ E = {es[i] : i \in 1 .. Len(es)}
  BY DEF Listed
<1>2. /\ es \in Seq(TableEntry) /\ Len(es) \in Nat /\ \A i \in 1 .. Len(es) : es[i].key \in Seq(Nat)
      /\ \A i, j \in 1 .. Len(es) : i < j => Less(es[i].key, es[j].key)
  BY <1>1, SortedKeys
<1>a. PICK l \in Nat : l = Len(es)
  BY <1>2, Zenon
<1>b. PICK x : x = Suffix(es, m)
  OBVIOUS
<1>3. x \in Seq(TableEntry) /\ Len(x) = (l + 1) - m /\ \A i \in 1 .. (l + 1) - m : x[i] = es[(m - 1) + i]
  BY <1>2, <1>a, <1>b, SuffixFacts
<1>4. m \in 1 .. l + 1
  BY <1>a, Zenon
<1>5. Sorted(x)
  <2>1. ASSUME NEW i \in 1 .. (l + 1) - m, NEW j \in 1 .. (l + 1) - m, i < j PROVE Less(x[i].key, x[j].key)
    <3>1. (m - 1) + i \in 1 .. l /\ (m - 1) + j \in 1 .. l /\ (m - 1) + i < (m - 1) + j
      BY <1>4, <2>1
    <3>2. Less(es[(m - 1) + i].key, es[(m - 1) + j].key)
      BY <1>2, <1>a, <3>1, Zenon
    <3> QED
      BY <1>3, <3>2, Zenon
  <2> QED
    BY <1>3, <2>1, Zenon DEF Sorted
<1>6. ASSUME NEW j \in m .. l PROVE ~Less(es[j].key, k)
  <2>1. m \in 1 .. l /\ m # l + 1 /\ j \in 1 .. l
    BY <1>4, <1>6
  <2>2. ~Less(es[m].key, k)
    BY <1>a, <2>1, Zenon
  <2>3. CASE j = m
    BY <2>2, <2>3
  <2>4. CASE j # m
    <3>1. m < j
      BY <1>4, <2>4
    <3>2. Less(es[m].key, es[j].key)
      BY <1>2, <1>a, <2>1, <3>1, Zenon
    <3>3. es[m].key \in Seq(Nat) /\ es[j].key \in Seq(Nat)
      BY <1>2, <1>a, <2>1, Zenon
    <3> QED
      BY <2>2, <3>2, <3>3, LessTransitive
  <2> QED
    BY <2>3, <2>4
<1>c. PICK F : F = {e \in E : ~Less(e.key, k)}
  OBVIOUS
<1>7. \A e : e \in F <=> \E i \in 1 .. (l + 1) - m : e = x[i]
  <2>1. ASSUME NEW e \in F PROVE \E i \in 1 .. (l + 1) - m : e = x[i]
    <3>1. PICK j \in 1 .. l : e = es[j] /\ ~Less(e.key, k)
      BY <1>1, <1>a, <1>c, <2>1, Zenon
    <3>2. ~(j \in 1 .. m - 1)
      BY <3>1, Zenon
    <3>3. j - (m - 1) \in 1 .. (l + 1) - m /\ (m - 1) + (j - (m - 1)) = j
      BY <1>4, <3>2
    <3>4. x[j - (m - 1)] = es[j]
      BY <1>3, <3>3, Zenon
    <3> QED
      BY <3>1, <3>3, <3>4, Zenon
  <2>2. ASSUME NEW i \in 1 .. (l + 1) - m PROVE x[i] \in F
    <3>1. (m - 1) + i \in m .. l /\ (m - 1) + i \in 1 .. l
      BY <1>4
    <3>2. x[i] = es[(m - 1) + i] /\ ~Less(es[(m - 1) + i].key, k) /\ es[(m - 1) + i] \in E
      BY <1>1, <1>3, <1>6, <1>a, <3>1, Zenon
    <3> QED
      BY <1>c, <3>2, Zenon
  <2> QED
    BY <2>1, <2>2, Zenon
<1>8. F = {x[i] : i \in 1 .. Len(x)}
  <2>1. PICK G : G = {x[i] : i \in 1 .. Len(x)}
    OBVIOUS
  <2>2. \A e : e \in G <=> \E i \in 1 .. (l + 1) - m : e = x[i]
    BY <1>3, <2>1, Zenon
  <2>3. \A e : e \in F <=> e \in G
    BY <1>7, <2>2, Zenon
  <2>4. F = G
    BY <2>3
  <2> QED
    BY <2>1, <2>4, Zenon
<1> QED
  BY <1>5, <1>8, <1>b, <1>c, ZenonT(60) DEF Listed

\* Seek.
LEMMA ReadsSeek ==
    ASSUME NEW es, NEW E, Listed(es, E), NEW t, NEW x, NEW d, Reads(t, x, d, es), NEW k \in Seq(Nat)
    PROVE  Reads(t, IterSeek(t, k), InOrder({e \in E : ~Less(e.key, k)}), es)
<1>1. Sorted(es)
  BY DEF Listed
<1>2. PICK off, sh, bd : TableLaid(t.index, es, off, sh, bd)
  BY Zenon DEF Reads
<1>3. PICK m \in 1 .. Len(es) + 1 :
          /\ IterAt(t, IterSeek(t, k), es, off, sh, bd, m)
          /\ \A j \in 1 .. m - 1 : Less(es[j].key, k)
          /\ m # Len(es) + 1 => ~Less(es[m].key, k)
  BY <1>1, <1>2, IterSeeks
<1>4. Listed(Suffix(es, m), {e \in E : ~Less(e.key, k)})
  BY <1>3, SuffixListed
<1>5. InOrder({e \in E : ~Less(e.key, k)}) = Suffix(es, m)
  BY <1>4, ListedOnce
<1> QED
  BY <1>2, <1>3, <1>5, Zenon DEF Reads

-----------------------------------------------------------------------------
(***************************************************************************)
(* The table: while it is written its blocks have what was added, and then *)
(* the iterator is where it is due.                                        *)
(***************************************************************************)
Lays(v, es) == \E off, sh, bd : WriterLaid(v, es, off, sh, bd)

TableInv ==
    /\ Merging => Lays(w, InOrder(expected)) /\ it = NoIter /\ due = << >>
    /\ ~Merging => Reads(table, it, due, InOrder(expected))

\* What is expected is in order.
LEMMA ExpectedListed ==
    ASSUME MergeInv
    PROVE  Listed(InOrder(expected), expected) /\ Sorted(InOrder(expected))
<1>1. Keyed(expected)
  BY DEF MergeInv
<1> QED
  BY <1>1, InOrderListed DEF Listed

\* The Writer lays out what is taken.
LEMMA LaysTaken ==
    ASSUME NEW es, Sorted(es), NEW v, Written(v, es), Lays(v, es),
           NEW lst, NEW drop, NEW e, NEW v2, Taken(v, es, lst, drop, e, v2)
    PROVE  Lays(v2, es)
<1>1. HasKeys(v, es)
  BY Zenon DEF Written, HasKeys
<1>2. CASE v2 = v
  BY <1>2
<1>3. CASE Len(v.keys) + 1 \in 1 .. Len(es) /\ e = es[Len(v.keys) + 1] /\ v2 = Add(v, e)
  <2>a. PICK n : n = Len(v.keys)
    OBVIOUS
  <2>1. n \in Nat
    <3>1. v.keys \in Seq(Key)
      BY <1>1, Zenon DEF HasKeys
    <3> QED
      BY <2>a, <3>1, LengthIsNat, Zenon
  <2>2. n + 1 <= Len(es)
    <3>1. PICK l \in Nat : l = Len(es)
      BY SortedKeys, Zenon
    <3>2. n + 1 \in 1 .. l
      BY <1>3, <2>a, <3>1, Zenon
    <3>3. n + 1 <= l
      BY <2>1, <3>2
    <3> QED
      BY <3>1, <3>3, Zenon
  <2>3. NextEntry(v, es, n, e)
    BY <1>3, <2>1, <2>2, <2>a, Zenon DEF NextEntry
  <2>4. IsWriter(v)
    BY <1>1, Zenon DEF HasKeys
  <2>5. WriterAdded(v, e, v2)
    BY <1>3, <2>4, AddFacts, Zenon
  <2>6. PICK off, sh, bd : WriterLaid(v, es, off, sh, bd)
    BY Zenon DEF Lays
  <2>7. \E off2, sh2, bd2 : WriterLaid(v2, es, off2, sh2, bd2)
    BY <1>1, <2>3, <2>5, <2>6, WriterLaidAdd, Zenon
  <2> QED
    BY <2>7, Zenon DEF Lays
<1> QED
  BY <1>2, <1>3, Zenon DEF Taken

\* A merge begins with an empty table.
LEMMA TableInvInit == MergeInit => TableInv
<1> SUFFICES ASSUME MergeInit PROVE TableInv
  OBVIOUS
<1>1. opts \in Options /\ w = NewWriter(opts.BlockSize) /\ it = NoIter /\ due = << >>
  BY DEF MergeInit
<1>2. Merging
  <2>1. opts.BlockSize \in Nat \ {0}
    BY <1>1, MergeAssumption DEF Options
  <2>2. w.blockSize = opts.BlockSize
    BY <1>1 DEF NewWriter
  <2> QED
    BY <2>1, <2>2 DEF Merging
<1>3. Lays(w, InOrder(expected))
  BY <1>1, WriterLaidNew, Zenon DEF Lays
<1> QED
  BY <1>1, <1>2, <1>3, Zenon DEF TableInv

\* A step of the merge.
LEMMA TableInvStep ==
    ASSUME MergeInv, TableInv, NEW item \in heap, MergeStep(item)
    PROVE  TableInv'
<1>1. /\ Merging' /\ Merging /\ Taken(w, InOrder(expected), last, opts.DropTombstones, item.ent, w')
  BY MergeInvStep
<1>a. PICK es : es = InOrder(expected)
  OBVIOUS
<1>2. Sorted(es)
  BY <1>a, ExpectedListed, Zenon
<1>3. Written(w, es) /\ Lays(w, es) /\ it = NoIter /\ due = << >>
  BY <1>1, <1>a, Zenon DEF MergeInv, TableInv, Progress
<1>4. Lays(w', es)
  BY <1>1, <1>2, <1>3, <1>a, LaysTaken, Zenon
<1>5. expected' = expected /\ it' = it /\ due' = due
  BY DEF MergeStep, readVars
<1>6. InOrder(expected)' = es
  BY <1>5, <1>a
<1>7. NoIter' = NoIter
  BY DEF NoIter, NoTable, PastEnd
<1>8. Lays(w', InOrder(expected)') /\ it' = NoIter' /\ due' = << >>
  BY <1>3, <1>4, <1>5, <1>6, <1>7, Zenon
<1> QED
  BY <1>1, <1>8 DEF TableInv

\* Finish.
LEMMA TableInvFinish ==
    ASSUME MergeInv, TableInv, MergeFinish
    PROVE  TableInv'
<1>1. ~Merging' /\ Len(w.keys) = Len(InOrder(expected))
  BY MergeInvFinish
<1>a. PICK es : es = InOrder(expected)
  OBVIOUS
<1>b. PICK t : t = FinishTable(w)
  OBVIOUS
<1>2. Sorted(es)
  BY <1>a, ExpectedListed, Zenon
<1>3. Merging /\ table' = t /\ it' = PastEnd(t) /\ due' = due /\ expected' = expected
  BY <1>b DEF MergeFinish
<1>4. Written(w, es) /\ Lays(w, es) /\ due = << >>
  BY <1>3, <1>a, Zenon DEF MergeInv, TableInv, Progress
<1>5. HasKeys(w, es)
  BY <1>4, Zenon DEF Written, HasKeys
<1>6. PICK off, sh, bd : WriterLaid(w, es, off, sh, bd)
  BY <1>4, Zenon DEF Lays
<1>7. TableHolds(t, es)
  BY <1>1, <1>2, <1>5, <1>6, <1>a, <1>b, FinishLaid, Zenon
<1>8. Reads(t, PastEnd(t), << >>, es)
  BY <1>2, <1>7, ReadsEnd, Zenon
<1>9. InOrder(expected)' = es
  BY <1>3, <1>a
<1>10. Reads(table', it', due', InOrder(expected)')
  BY <1>3, <1>4, <1>8, <1>9, Zenon
<1> QED
  BY <1>1, <1>10 DEF TableInv

\* Readers move the iterator.
LEMMA TableInvRead ==
    ASSUME MergeInv, TableInv, NewIterator \/ Next \/ \E k \in Key : Seek(k)
    PROVE  TableInv'
<1>a. PICK es : es = InOrder(expected)
  OBVIOUS
<1>1. ~Merging /\ UNCHANGED mergeVars
  BY DEF NewIterator, Next, Seek, Place
<1>2. ~Merging' /\ table' = table /\ expected' = expected
  BY <1>1 DEF Merging, mergeVars
<1>3. Listed(es, expected) /\ Sorted(es) /\ Reads(table, it, due, es)
  BY <1>1, <1>a, ExpectedListed, Zenon DEF TableInv
<1>4. Reads(table, it', due', es)
  <2>1. CASE NewIterator
    <3>1. it' = IterNew(table) /\ due' = es
      BY <1>a, <2>1 DEF NewIterator, Place
    <3> QED
      BY <1>3, <3>1, ReadsNew, Zenon
  <2>2. CASE Next
    <3>1. it' = IterNext(table, it) /\ due' = Rest(due)
      BY <2>2 DEF Next
    <3> QED
      BY <1>3, <3>1, ReadsNext, Zenon
  <2>3. CASE \E k \in Key : Seek(k)
    <3>1. PICK k \in Key : Seek(k)
      BY <2>3
    <3>2. it' = IterSeek(table, k) /\ due' = InOrder({e \in expected : ~Less(e.key, k)})
      BY <3>1 DEF Seek, Place
    <3>3. k \in Seq(Nat)
      BY ByteAssumption
    <3>4. Reads(table, IterSeek(table, k), InOrder({e \in expected : ~Less(e.key, k)}), es)
      BY <1>3, <3>3, ReadsSeek, Zenon
    <3> QED
      BY <3>2, <3>4, Zenon
  <2> QED
    BY <2>1, <2>2, <2>3
<1>5. InOrder(expected)' = es
  BY <1>2, <1>a
<1>6. Reads(table', it', due', InOrder(expected)')
  BY <1>2, <1>4, <1>5, Zenon
<1> QED
  BY <1>2, <1>6 DEF TableInv

\* Every step keeps the invariant.
LEMMA TableInvNext == MergeInv /\ TableInv /\ [MergeNext]_<<mergeVars, readVars>> => TableInv'
<1> SUFFICES ASSUME MergeInv, TableInv, [MergeNext]_<<mergeVars, readVars>> PROVE TableInv'
  OBVIOUS
<1>1. CASE \E item \in heap : MergeStep(item)
  BY <1>1, TableInvStep
<1>2. CASE MergeFinish
  BY <1>2, TableInvFinish
<1>3. CASE NewIterator \/ Next \/ \E k \in Key : Seek(k)
  BY <1>3, TableInvRead
<1>4. CASE UNCHANGED <<mergeVars, readVars>>
  BY <1>4 DEF TableInv, Merging, mergeVars, readVars, NoIter, NoTable, PastEnd
<1> QED
  BY <1>1, <1>2, <1>3, <1>4 DEF MergeNext

\* Whatever the inputs, the block size and the restarts, whatever keys and values of bytes: the merged
\* table answers Get with the newest version of the key in the inputs, and with nothing when there is
\* none (MergeFiles, Writer.Add, Writer.Finish, Reader.Get).
THEOREM GetsFindNewest == MergeSpec => []GetFindsNewest
<1>1. ASSUME MergeInv, TableInv PROVE GetFindsNewest
  <2> SUFFICES ASSUME ~Merging, NEW k \in Key PROVE TableGet(table, k) = {e \in expected : e.key = k}
    BY Zenon DEF GetFindsNewest
  <2>a. PICK es : es = InOrder(expected)
    OBVIOUS
  <2>1. Sorted(es) /\ expected = {es[i] : i \in 1 .. Len(es)}
    BY <1>1, <2>a, ExpectedListed, Zenon DEF Listed
  <2>2. Reads(table, it, due, es)
    BY <1>1, <2>a, Zenon DEF TableInv
  <2>3. PICK off, sh, bd : TableLaid(table.index, es, off, sh, bd)
    BY <2>2, Zenon DEF Reads
  <2>4. FilterHas(table.bloom, es)
    BY <2>2, Zenon DEF Reads
  <2>5. k \in Seq(Nat)
    BY ByteAssumption
  <2>6. Sorted(es)
    BY <2>1
  <2>7. TableGet(table, k) = Found(es, k)
    BY <2>3, <2>4, <2>5, <2>6, TableGets, Zenon
  <2> QED
    BY <2>1, <2>7, Zenon DEF Found
<1> QED
  BY <1>1, MergeInvInit, MergeInvNext, TableInvInit, TableInvNext, PTL DEF MergeSpec

\* However often an iterator is placed by NewIterator and Seek and moved by Next, over however many
\* blocks and restarts, it is on the entry that follows in key order, and invalid exactly at the end.
THEOREM IteratorsFollowTable == MergeSpec => []IteratorFollowsTable
<1>1. ASSUME MergeInv, TableInv PROVE IteratorFollowsTable
  <2>1. CASE Merging
    <3>1. it = NoIter /\ due = << >>
      BY <1>1, <2>1 DEF TableInv
    <3>2. ~it.at.valid
      BY <3>1 DEF NoIter, PastEnd, BlockAt
    <3> QED
      BY <3>1, <3>2, Zenon DEF IteratorFollowsTable
  <2>2. CASE ~Merging
    <3>a. PICK es : es = InOrder(expected)
      OBVIOUS
    <3>1. Sorted(es) /\ Reads(table, it, due, es)
      BY <1>1, <2>2, <3>a, ExpectedListed, Zenon DEF TableInv
    <3>2. PICK off, sh, bd, m : IterAt(table, it, es, off, sh, bd, m) /\ due = Suffix(es, m)
      BY <3>1, Zenon DEF Reads
    <3>3. es \in Seq(TableEntry) /\ Len(es) \in Nat /\ \A i \in 1 .. Len(es) : es[i] \in TableEntry
      BY <3>1, SortedKeys
    <3>4. m \in 1 .. Len(es) + 1
      BY <3>2, Zenon DEF IterAt
    <3>5. CASE m = Len(es) + 1
      <4>1. it = PastEnd(table)
        BY <3>2, <3>5, Zenon DEF IterAt
      <4>2. ~it.at.valid
        BY <4>1 DEF PastEnd, BlockAt
      <4>3. due = << >>
        BY <3>2, <3>3, <3>4, <3>5, SuffixFacts
      <4> QED
        BY <4>2, <4>3, Zenon DEF IteratorFollowsTable
    <3>6. CASE m # Len(es) + 1
      <4>1. PICK b : it = [bi |-> b, at |-> OnEntry(es, off, sh, m)]
        BY <3>2, <3>6, Zenon DEF IterAt
      <4>2. it.at = OnEntry(es, off, sh, m)
        BY <4>1
      <4>3. it.at.valid
        BY <4>2 DEF OnEntry, Positioned
      <4>4. m \in 1 .. Len(es)
        BY <3>3, <3>4, <3>6
      <4>5. EntryOf(it.at) = es[m]
        BY <3>3, <4>2, <4>4, EntryType DEF OnEntry
      <4>6. due # << >> /\ Head(due) = es[m]
        BY <3>2, <3>3, <3>4, <3>6, SuffixFacts
      <4> QED
        BY <4>3, <4>5, <4>6, Zenon DEF IteratorFollowsTable
    <3> QED
      BY <3>5, <3>6
  <2> QED
    BY <2>1, <2>2
<1> QED
  BY <1>1, MergeInvInit, MergeInvNext, TableInvInit, TableInvNext, PTL DEF MergeSpec
=============================================================================

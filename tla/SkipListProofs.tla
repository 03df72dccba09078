--------------------------- MODULE SkipListProofs ---------------------------
(***************************************************************************)
(* The skip list, for any keys, levels and number of nodes.                *)
(***************************************************************************)
EXTENDS SkipList, OperatorProofs

-----------------------------------------------------------------------------
(***************************************************************************)
(* The shape of the heap.  A head is a node without a key, and the nodes   *)
(* of its list are those allocated after it and before the next head.  A   *)
(* pointer of a node on some level leads to the node of its own list that  *)
(* is next by key among those on that level, and is Nil when there is      *)
(* none.  This holds in the lists that Clear has dropped too.              *)
(***************************************************************************)
Node ==
    [ent : [key : Key \cup {Nil}, val : Value \cup {Tombstone}, seq : 0 .. MaxSeq],
     next : UNION {[1 .. l -> Nat] : l \in 1 .. MaxLevel}]

Levels(x) == DOMAIN heap[x].next

\* In one list.
Peer(x, y) == \A h \in DOMAIN heap : KeyOf(h) = Nil => (h <= x <=> h <= y)

HeadInv ==
    /\ head \in DOMAIN heap /\ heap[head].ent.key = Nil /\ Levels(head) = 1 .. MaxLevel
    /\ \A h \in DOMAIN heap : KeyOf(h) = Nil => h <= head
    /\ level \in 1 .. MaxLevel
    /\ \A x \in DOMAIN heap : x > head => Levels(x) \subseteq 1 .. level

\* The pointer of x on level i leads to a later node on that level, and passes none.
LinkedAt(x, i) ==
    LET y == Forward(x, i)
    IN  /\ y # Nil => y \in DOMAIN heap /\ i \in Levels(y) /\ Peer(x, y) /\ KeyOf(x) < KeyOf(y)
        /\ \A z \in DOMAIN heap : i \in Levels(z) /\ Peer(x, z) /\ KeyOf(x) < KeyOf(z)
                                    => y # Nil /\ KeyOf(y) <= KeyOf(z)

Linked == \A x \in DOMAIN heap : \A i \in Levels(x) : LinkedAt(x, i)

\* A list has a key once.
Distinct == \A x, y \in DOMAIN heap : Peer(x, y) /\ KeyOf(x) = KeyOf(y) => x = y

ShapeInv == heap \in Seq(Node) /\ HeadInv /\ Linked /\ Distinct

\* The nodes of the list, the head left out.
Live == {x \in DOMAIN heap : x > head}

\* What the types say of a node.
LEMMA NodeFacts ==
    ASSUME heap \in Seq(Node)
    PROVE  /\ Len(heap) \in Nat /\ DOMAIN heap = 1 .. Len(heap) /\ Nil \notin DOMAIN heap
           /\ \A x \in DOMAIN heap :
                 /\ heap[x] \in Node /\ KeyOf(x) \in Nat /\ KeyOf(x) \in Key \cup {Nil}
                 /\ \E l \in 1 .. MaxLevel : Levels(x) = 1 .. l
                 /\ 1 \in Levels(x) /\ Levels(x) \subseteq 1 .. MaxLevel
                 /\ \A i \in Levels(x) : Forward(x, i) \in Nat
<1>1. Len(heap) \in Nat /\ DOMAIN heap = 1 .. Len(heap)
  OBVIOUS
<1>2. Nil \notin DOMAIN heap
  BY <1>1 DEF Nil
<1>3. ASSUME NEW x \in DOMAIN heap
      PROVE  /\ heap[x] \in Node /\ KeyOf(x) \in Nat /\ KeyOf(x) \in Key \cup {Nil}
             /\ \E l \in 1 .. MaxLevel : Levels(x) = 1 .. l
             /\ 1 \in Levels(x) /\ Levels(x) \subseteq 1 .. MaxLevel
             /\ \A i \in Levels(x) : Forward(x, i) \in Nat
  <2>1. heap[x] \in Node
    BY <1>1
  <2>2. KeyOf(x) \in Key \cup {Nil}
    BY <2>1 DEF Node, KeyOf
  <2>3. KeyOf(x) \in Nat
    <3>1. Key \cup {Nil} \subseteq Nat
      BY RankAssumption DEF Nil
    <3> QED
      BY <2>2, <3>1
  <2>4. PICK l \in 1 .. MaxLevel : heap[x].next \in [1 .. l -> Nat]
    BY <2>1 DEF Node
  <2>5. Levels(x) = 1 .. l
    BY <2>4 DEF Levels
  <2>6. 1 \in Levels(x) /\ Levels(x) \subseteq 1 .. MaxLevel
    BY <2>5, ListAssumption
  <2>7. \A i \in Levels(x) : Forward(x, i) \in Nat
    BY <2>4, <2>5 DEF Forward
  <2> QED
    BY <2>1, <2>2, <2>3, <2>5, <2>6, <2>7
<1> QED
  BY <1>1, <1>2, <1>3

\* The peers of the head are the nodes from it on.
LEMMA LiveFacts ==
    ASSUME ShapeInv
    PROVE  /\ \A x \in DOMAIN heap : Peer(head, x) <=> x >= head
           /\ \A x, y \in DOMAIN heap : x >= head => (Peer(x, y) <=> y >= head)
           /\ \A x \in Live : KeyOf(x) \in Key /\ KeyOf(x) > KeyOf(head)
<1>1. /\ Len(heap) \in Nat /\ DOMAIN heap = 1 .. Len(heap)
      /\ \A x \in DOMAIN heap : KeyOf(x) \in Nat /\ KeyOf(x) \in Key \cup {Nil}
  BY NodeFacts DEF ShapeInv
<1>2. /\ head \in DOMAIN heap /\ KeyOf(head) = Nil
      /\ \A h \in DOMAIN heap : KeyOf(h) = Nil => h <= head
  BY DEF ShapeInv, HeadInv, KeyOf
<1>3. ASSUME NEW x \in DOMAIN heap, x >= head, NEW y \in DOMAIN heap PROVE Peer(x, y) <=> y >= head
  <2>1. y >= head => Peer(x, y)
    <3> SUFFICES ASSUME y >= head, NEW h \in DOMAIN heap, KeyOf(h) = Nil PROVE h <= x /\ h <= y
      BY DEF Peer
    <3>1. h <= head /\ h \in Nat /\ head \in Nat /\ x \in Nat /\ y \in Nat
      BY <1>1, <1>2
    <3> QED
      BY <1>3, <3>1
  <2>2. Peer(x, y) => y >= head
    <3> SUFFICES ASSUME Peer(x, y) PROVE y >= head
      OBVIOUS
    <3>1. head <= x <=> head <= y
      BY <1>2 DEF Peer
    <3> QED
      BY <1>1, <1>2, <1>3, <3>1
  <2> QED
    BY <2>1, <2>2
<1>4. head >= head
  BY <1>1, <1>2
<1>5. ASSUME NEW x \in Live PROVE KeyOf(x) \in Key /\ KeyOf(x) > KeyOf(head)
  <2>1. x \in DOMAIN heap /\ x > head /\ x \in Nat /\ head \in Nat
    BY <1>1, <1>2 DEF Live
  <2>2. KeyOf(x) # Nil
    BY <1>2, <2>1
  <2>3. KeyOf(x) \in Key
    BY <1>1, <2>1, <2>2
  <2> QED
    BY <1>1, <1>2, <2>1, <2>2, <2>3 DEF Nil
<1> QED
  BY <1>2, <1>3, <1>4, <1>5

\* The search on one level, as an equation.
LEMMA WalkEquation ==
    ASSUME ShapeInv, NEW i \in 1 .. MaxLevel, NEW k, NEW x \in OnLevel(i)
    PROVE  LET y == Forward(x, i)
           IN  /\ y # Nil /\ KeyOf(y) < k => Walk(i, k)[x] = Walk(i, k)[y]
               /\ ~(y # Nil /\ KeyOf(y) < k) => Walk(i, k)[x] = x
<1> DEFINE D == OnLevel(i)
           T == {y \in D : Forward(y, i) # Nil /\ KeyOf(Forward(y, i)) < k}
           nxt == [y \in D |-> Forward(y, i)]
           Step(W, y) == LET z == Forward(y, i) IN IF z # Nil /\ KeyOf(z) < k THEN W[z] ELSE y
<1>1. Stays(D, T, nxt)
  BY DEF ShapeInv, Linked, LinkedAt, OnLevel, Levels, Stays
<1> HIDE DEF T, nxt, D
<1> DEFINE f == EndOf(D, T, nxt)
<1>2. \A y \in D : (y \in T => f[y] = f[nxt[y]]) /\ (y \notin T => f[y] = y)
  BY <1>1, Following
<1>3. f = [y \in D |-> f[y]]
  BY DEF EndOf
<1> HIDE DEF f
<1>4. f = [y \in D |-> Step(f, y)]
  <2>1. \A y \in D : f[y] = Step(f, y)
    BY <1>2 DEF T, nxt
  <2> QED
    BY <1>3, <2>1
<1>5. Walk(i, k) = CHOOSE W : W = [y \in D |-> Step(W, y)]
  BY DEF Walk, D
<1>6. Walk(i, k) = [y \in D |-> Step(Walk(i, k), y)]
  BY <1>4, <1>5
<1>7. Walk(i, k)[x] = Step(Walk(i, k), x)
  <2> HIDE DEF Step
  <2> QED
    BY <1>6 DEF D
<1> QED
  BY <1>7

\* What holds of a node if it holds of all nodes with a larger key holds of every node.
LEMMA KeyInduction ==
    ASSUME heap \in Seq(Node), NEW G,
           \A x \in DOMAIN heap : (\A y \in DOMAIN heap : KeyOf(y) > KeyOf(x) => y \in G) => x \in G
    PROVE  DOMAIN heap \subseteq G
<1> DEFINE bad == DOMAIN heap \ G
           S == {KeyOf(x) : x \in bad}
<1>1. /\ Len(heap) \in Nat /\ DOMAIN heap = 1 .. Len(heap)
      /\ \A x \in DOMAIN heap : KeyOf(x) \in Nat
  BY NodeFacts
<1>2. S \in SUBSET Nat /\ IsFiniteSet(S)
  <2>1. IsFiniteSet(DOMAIN heap)
    BY <1>1, FS_Interval
  <2>2. IsFiniteSet(bad)
    BY <2>1, FS_Subset
  <2>3. IsFiniteSet(S)
    <3> DEFINE f == [x \in bad |-> KeyOf(x)]
    <3>1. f \in Surjection(bad, S)
      BY DEF Surjection
    <3> QED
      BY <2>2, <3>1, FS_Surjection
  <2> QED
    BY <1>1, <2>3
<1>3. SUFFICES ASSUME bad # {} PROVE FALSE
  OBVIOUS
<1>4. PICK m \in S : \A n \in S : n <= m
  <2>1. S # {}
    BY <1>3
  <2> QED
    BY <1>2, <2>1, GreatestOfFinite
<1>5. PICK x \in bad : m = KeyOf(x)
  OBVIOUS
<1>6. ASSUME NEW y \in DOMAIN heap, KeyOf(y) > KeyOf(x) PROVE y \in G
  <2>1. y \in bad => KeyOf(y) <= m
    BY <1>4
  <2> QED
    BY <1>1, <1>5, <1>6, <2>1
<1> QED
  BY <1>5, <1>6

\* From a node of the list on, level 1 has the nodes with larger keys.
LEMMA NodesAreLive ==
    ASSUME ShapeInv
    PROVE  Nodes = Live
<1> DEFINE D == DOMAIN heap
           T == {y \in D : Forward(y, 1) # Nil}
           nxt == [y \in D |-> Forward(y, 1)]
           Step(f, x) == LET y == Forward(x, 1) IN IF y = Nil THEN {} ELSE {y} \cup f[y]
           B == CHOOSE f : f = [x \in D |-> Step(f, x)]
<1>1. /\ heap \in Seq(Node) /\ Nil \notin D
      /\ \A x \in D : 1 \in Levels(x) /\ KeyOf(x) \in Nat /\ x \in Nat
      /\ head \in D /\ head \in Nat /\ KeyOf(head) = Nil
  BY NodeFacts DEF ShapeInv, HeadInv, KeyOf
<1>2. /\ \A x, y \in D : x >= head => (Peer(x, y) <=> y >= head)
      /\ \A x \in Live : KeyOf(x) \in Key /\ KeyOf(x) > KeyOf(head)
  BY LiveFacts
<1>3. \A x \in D : LinkedAt(x, 1)
  BY <1>1 DEF ShapeInv, Linked
<1>4. Stays(D, T, nxt)
  BY <1>3 DEF LinkedAt, Stays
<1>5. \A x \in D : B[x] = Step(B, x)
  <2> DEFINE f == AllOf(D, T, nxt)
  <2> HIDE DEF T, nxt
  <2>1. \A x \in D : (x \in T => f[x] = {nxt[x]} \cup f[nxt[x]]) /\ (x \notin T => f[x] = {})
    BY <1>4, Following
  <2>2. f = [x \in D |-> f[x]]
    BY DEF AllOf
  <2> HIDE DEF f
  <2>3. \A x \in D : f[x] = Step(f, x)
    BY <2>1 DEF T, nxt
  <2>4. f = [x \in D |-> Step(f, x)]
    BY <2>2, <2>3
  <2>5. B = [x \in D |-> Step(B, x)]
    BY <2>4
  <2> HIDE DEF Step, B
  <2> QED
    BY <2>5
<1>6. Nodes = B[head]
  BY DEF Nodes
<1> HIDE DEF B
<1> DEFINE G == {x \in D : x >= head => B[x] = {z \in Live : KeyOf(z) > KeyOf(x)}}
<1>7. ASSUME NEW x \in D, \A y \in D : KeyOf(y) > KeyOf(x) => y \in G PROVE x \in G
  <2> SUFFICES ASSUME x >= head PROVE B[x] = {z \in Live : KeyOf(z) > KeyOf(x)}
    OBVIOUS
  <2> DEFINE y == Forward(x, 1)
  <2>1. \A z \in Live : z \in D /\ 1 \in Levels(z) /\ Peer(x, z)
    BY <1>1, <1>2 DEF Live
  <2>2. CASE y = Nil
    <3>1. B[x] = {}
      BY <1>5, <2>2
    <3>2. \A z \in Live : ~(KeyOf(x) < KeyOf(z))
      BY <1>3, <2>1, <2>2 DEF LinkedAt
    <3> QED
      BY <1>1, <2>1, <3>1, <3>2
  <2>3. CASE y # Nil
    <3>1. y \in D /\ Peer(x, y) /\ KeyOf(x) < KeyOf(y)
      BY <1>3, <2>3 DEF LinkedAt
    <3>2. y >= head /\ y \in Nat /\ KeyOf(x) \in Nat /\ KeyOf(y) \in Nat
      BY <1>1, <1>2, <3>1
    <3>3. y \in Live
      BY <1>1, <3>1, <3>2 DEF Live, Nil
    <3>4. B[x] = {y} \cup B[y]
      BY <1>5, <2>3
    <3>5. B[y] = {z \in Live : KeyOf(z) > KeyOf(y)}
      <4>1. KeyOf(y) > KeyOf(x)
        BY <3>1, <3>2
      <4> QED
        BY <1>7, <3>1, <3>2, <4>1
    <3>6. ASSUME NEW z \in Live PROVE KeyOf(z) > KeyOf(x) <=> z = y \/ KeyOf(z) > KeyOf(y)
      <4>1. KeyOf(z) \in Nat /\ (KeyOf(x) < KeyOf(z) => KeyOf(y) <= KeyOf(z))
        BY <1>1, <1>3, <2>1 DEF LinkedAt
      <4>2. KeyOf(z) = KeyOf(y) => z = y
        <5>1. Peer(z, y)
          BY <1>2, <3>1, <3>2, <2>1 DEF Live
        <5> QED
          BY <2>1, <3>1, <5>1 DEF ShapeInv, Distinct
      <4> QED
        BY <3>1, <3>2, <4>1, <4>2
    <3> QED
      BY <3>3, <3>4, <3>5, <3>6
  <2> QED
    BY <2>2, <2>3
<1>8. D \subseteq G
  <2> HIDE DEF G
  <2> QED
    BY <1>1, <1>7, KeyInduction
<1>9. B[head] = {z \in Live : KeyOf(z) > KeyOf(head)}
  BY <1>1, <1>8
<1> QED
  BY <1>2, <1>6, <1>9

-----------------------------------------------------------------------------
(***************************************************************************)
(* The search.  On every level it ends at the last node of the list that   *)
(* is on the level and has a smaller key, wherever it began before.        *)
(***************************************************************************)
IsLast(p, i, k) ==
    /\ p \in DOMAIN heap /\ p >= head /\ i \in Levels(p) /\ KeyOf(p) < k
    /\ \A z \in Live : i \in Levels(z) /\ KeyOf(z) < k => KeyOf(z) <= KeyOf(p)

\* The walk along one level ends there.
LEMMA WalkEnds ==
    ASSUME ShapeInv, NEW i \in 1 .. MaxLevel, NEW k \in Nat,
           NEW start \in DOMAIN heap, start >= head, i \in Levels(start), KeyOf(start) < k
    PROVE  IsLast(Walk(i, k)[start], i, k)
<1> DEFINE D == DOMAIN heap
           G == {x \in D : x >= head /\ i \in Levels(x) /\ KeyOf(x) < k => IsLast(Walk(i, k)[x], i, k)}
<1>1. heap \in Seq(Node) /\ \A x \in D : KeyOf(x) \in Nat /\ x \in Nat
  BY NodeFacts DEF ShapeInv
<1>2. \A x, y \in D : x >= head => (Peer(x, y) <=> y >= head)
  BY LiveFacts
<1>3. ASSUME NEW x \in D, \A y \in D : KeyOf(y) > KeyOf(x) => y \in G PROVE x \in G
  <2> SUFFICES ASSUME x >= head, i \in Levels(x), KeyOf(x) < k PROVE IsLast(Walk(i, k)[x], i, k)
    OBVIOUS
  <2> DEFINE y == Forward(x, i)
  <2>1. LinkedAt(x, i) /\ x \in OnLevel(i)
    BY DEF ShapeInv, Linked, OnLevel, Levels
  <2>2. CASE y # Nil /\ KeyOf(y) < k
    <3>1. y \in D /\ i \in Levels(y) /\ Peer(x, y) /\ KeyOf(x) < KeyOf(y)
      BY <2>1, <2>2 DEF LinkedAt
    <3>2. y >= head /\ KeyOf(y) > KeyOf(x)
      BY <1>1, <1>2, <3>1
    <3>3. IsLast(Walk(i, k)[y], i, k)
      BY <1>3, <2>2, <3>1, <3>2
    <3> QED
      BY <2>1, <2>2, <3>3, WalkEquation
  <2>3. CASE ~(y # Nil /\ KeyOf(y) < k)
    <3>1. Walk(i, k)[x] = x
      BY <2>1, <2>3, WalkEquation
    <3>2. ASSUME NEW z \in Live, i \in Levels(z), KeyOf(z) < k PROVE KeyOf(z) <= KeyOf(x)
      <4>1. z \in D /\ z >= head /\ Peer(x, z)
        BY <1>1, <1>2, SMTT(30) DEF Live, ShapeInv, HeadInv
      <4>2. KeyOf(x) < KeyOf(z) => y # Nil /\ KeyOf(y) <= KeyOf(z)
        BY <2>1, <3>2, <4>1 DEF LinkedAt
      <4>3. y # Nil => KeyOf(y) \in Nat
        BY <1>1, <2>1 DEF LinkedAt
      <4> QED
        BY <1>1, <2>3, <3>2, <4>1, <4>2, <4>3
    <3> QED
      BY <3>1, <3>2 DEF IsLast
  <2> QED
    BY <2>2, <2>3
<1>4. D \subseteq G
  <2> HIDE DEF G
  <2> QED
    BY <1>1, <1>3, KeyInduction
<1> QED
  BY <1>4

\* There is only one.
LEMMA LastIsUnique ==
    ASSUME ShapeInv, NEW i, NEW k, NEW p, NEW q, IsLast(p, i, k), IsLast(q, i, k)
    PROVE  p = q
<1>1. /\ \A x \in DOMAIN heap : KeyOf(x) \in Nat /\ x \in Nat
      /\ head \in DOMAIN heap /\ KeyOf(head) = 0
  BY NodeFacts DEF ShapeInv, HeadInv, Nil, KeyOf
<1>2. p \in DOMAIN heap /\ q \in DOMAIN heap /\ p >= head /\ q >= head
  BY DEF IsLast
<1>3. KeyOf(p) <= KeyOf(q)
  <2>1. p = head \/ p \in Live
    BY <1>1, <1>2 DEF Live
  <2> QED
    BY <1>1, <1>2, <2>1 DEF IsLast
<1>4. KeyOf(q) <= KeyOf(p)
  <2>1. q = head \/ q \in Live
    BY <1>1, <1>2 DEF Live
  <2> QED
    BY <1>1, <1>2, <2>1 DEF IsLast
<1>5. KeyOf(p) = KeyOf(q)
  BY <1>1, <1>2, <1>3, <1>4
<1>6. Peer(p, q)
  BY <1>2, LiveFacts
<1> QED
  BY <1>2, <1>5, <1>6 DEF ShapeInv, Distinct

\* What the search leaves on a level is where it may begin on the level below.
LEMMA StartBelow ==
    ASSUME ShapeInv, NEW k \in Nat \ {0}, NEW i \in 1 .. level, NEW p,
           IF i + 1 > level THEN p = head ELSE IsLast(p, i + 1, k)
    PROVE  IsLast(Walk(i, k)[p], i, k)
<1>1. /\ level \in 1 .. MaxLevel /\ MaxLevel \in Nat /\ head \in DOMAIN heap /\ KeyOf(head) = 0
      /\ Levels(head) = 1 .. MaxLevel
  BY ListAssumption DEF ShapeInv, HeadInv, Nil, KeyOf
<1>2. i \in 1 .. MaxLevel /\ i \in Nat
  BY <1>1
<1>3. \A x \in DOMAIN heap : x \in Nat /\ KeyOf(x) \in Nat /\ \E l \in 1 .. MaxLevel : Levels(x) = 1 .. l
  BY NodeFacts DEF ShapeInv
<1>4. p \in DOMAIN heap /\ p >= head /\ i \in Levels(p) /\ KeyOf(p) < k
  <2>1. CASE i + 1 > level
    BY <1>1, <1>2, <1>3, <2>1
  <2>2. CASE ~(i + 1 > level)
    <3>1. p \in DOMAIN heap /\ p >= head /\ i + 1 \in Levels(p) /\ KeyOf(p) < k
      BY <2>2 DEF IsLast
    <3>2. PICK l \in 1 .. MaxLevel : Levels(p) = 1 .. l
      BY <1>3, <3>1
    <3>3. i \in Levels(p)
      BY <1>1, <1>2, <3>1, <3>2
    <3> QED
      BY <3>1, <3>3
  <2> QED
    BY <2>1, <2>2
<1> QED
  BY <1>2, <1>4, WalkEnds

\* update[i], as an equation: there is a function that satisfies it, the last nodes themselves.
LEMMA PathEquation ==
    ASSUME ShapeInv, NEW k \in Nat \ {0}, NEW j \in 1 .. MaxLevel + 1
    PROVE  /\ j > level => SearchPath(k)[j] = head
           /\ ~(j > level) => SearchPath(k)[j] = Walk(j, k)[SearchPath(k)[j + 1]]
<1> DEFINE I == 1 .. MaxLevel + 1
           Step(u, i) == IF i > level THEN head ELSE Walk(i, k)[u[i + 1]]
           f == [i \in I |-> IF i > level THEN head ELSE CHOOSE p \in DOMAIN heap : IsLast(p, i, k)]
<1>1. /\ level \in 1 .. MaxLevel /\ MaxLevel \in Nat /\ head \in DOMAIN heap /\ KeyOf(head) = 0
      /\ Levels(head) = 1 .. MaxLevel /\ head \in Nat
  BY ListAssumption, NodeFacts DEF ShapeInv, HeadInv, Nil, KeyOf
<1>2. ASSUME NEW i \in 1 .. level PROVE f[i] \in DOMAIN heap /\ IsLast(f[i], i, k)
  <2>1. i \in 1 .. MaxLevel /\ i \in I /\ ~(i > level)
    BY <1>1
  <2>2. IsLast(Walk(i, k)[head], i, k)
    BY <1>1, <2>1, WalkEnds
  <2>3. \E p \in DOMAIN heap : IsLast(p, i, k)
    BY <2>2 DEF IsLast
  <2> QED
    BY <2>1, <2>3
<1>3. \A i \in I : i > level => f[i] = head
  OBVIOUS
<1>4. f = [i \in I |-> f[i]]
  OBVIOUS
<1> HIDE DEF f
<1>5. ASSUME NEW i \in I PROVE f[i] = Step(f, i)
  <2>1. CASE i > level
    BY <1>3, <2>1
  <2>2. CASE ~(i > level)
    <3>1. i \in 1 .. level /\ i + 1 \in I
      BY <1>1, <2>2
    <3>2. i + 1 > level => f[i + 1] = head
      BY <1>3, <3>1
    <3>3. ~(i + 1 > level) => IsLast(f[i + 1], i + 1, k)
      <4>1. ~(i + 1 > level) => i + 1 \in 1 .. level
        BY <1>1, <3>1
      <4> QED
        BY <1>2, <4>1
    <3>4. IsLast(Walk(i, k)[f[i + 1]], i, k)
      BY <3>1, <3>2, <3>3, StartBelow
    <3>5. f[i] = Walk(i, k)[f[i + 1]]
      BY <1>2, <3>1, <3>4, LastIsUnique
    <3> QED
      BY <2>2, <3>5
  <2> QED
    BY <2>1, <2>2
<1>6. f = [i \in I |-> Step(f, i)]
  BY <1>4, <1>5
<1>7. SearchPath(k) = CHOOSE u : u = [i \in I |-> Step(u, i)]
  BY DEF SearchPath
<1>8. SearchPath(k) = [i \in I |-> Step(SearchPath(k), i)]
  BY <1>6, <1>7
<1>9. SearchPath(k)[j] = Step(SearchPath(k), j)
  <2> HIDE DEF Step
  <2> QED
    BY <1>8
<1> QED
  BY <1>9

\* The path of the search has the last node on every level that there is.
LEMMA PathFacts ==
    ASSUME ShapeInv, NEW k \in Nat \ {0}, NEW i \in 1 .. MaxLevel
    PROVE  IsLast(SearchPath(k)[i], i, k)
<1> DEFINE u == SearchPath(k)
           Good(j) == IF j > level THEN u[j] = head ELSE IsLast(u[j], j, k)
           bad == {j \in 1 .. MaxLevel + 1 : ~Good(j)}
<1>1. /\ level \in 1 .. MaxLevel /\ MaxLevel \in Nat /\ head \in DOMAIN heap /\ KeyOf(head) = 0
      /\ Levels(head) = 1 .. MaxLevel /\ head \in Nat
  BY ListAssumption, NodeFacts DEF ShapeInv, HeadInv, Nil, KeyOf
<1> HIDE DEF u
<1>2. bad = {}
  <2> SUFFICES ASSUME bad # {} PROVE FALSE
    OBVIOUS
  <2>1. bad \in SUBSET (0 .. MaxLevel + 1)
    BY <1>1
  <2>2. PICK j \in bad : \A l \in bad : l <= j
    <3> HIDE DEF bad
    <3>1. MaxLevel + 1 \in Nat
      BY <1>1
    <3> QED
      BY <2>1, <3>1, GreatestNatural
  <2>3. j \in 1 .. MaxLevel + 1 /\ ~Good(j)
    OBVIOUS
  <2>4. j <= level
    BY <1>1, <2>3, PathEquation DEF u
  <2>5. j + 1 \in 1 .. MaxLevel + 1 /\ j \in 1 .. level /\ ~(j > level)
    BY <1>1, <2>3, <2>4
  <2>6. j + 1 \notin bad
    <3>1. ~(j + 1 <= j)
      BY <2>5
    <3> QED
      BY <2>2, <3>1
  <2>7. Good(j + 1)
    BY <2>5, <2>6
  <2>8. IsLast(Walk(j, k)[u[j + 1]], j, k)
    BY <2>5, <2>7, StartBelow
  <2>9. u[j] = Walk(j, k)[u[j + 1]]
    BY <2>3, <2>5, PathEquation DEF u
  <2> QED
    BY <2>3, <2>5, <2>8, <2>9
<1>3. i \in 1 .. MaxLevel + 1 /\ Good(i)
  BY <1>1, <1>2
<1>4. CASE ~(i > level)
  BY <1>3, <1>4 DEF u
<1>5. CASE i > level
  <2>1. u[i] = head
    BY <1>3, <1>5
  <2>2. \A z \in Live : i \notin Levels(z)
    <3> SUFFICES ASSUME NEW z \in Live PROVE i \notin Levels(z)
      OBVIOUS
    <3>1. Levels(z) \subseteq 1 .. level
      BY DEF Live, ShapeInv, HeadInv
    <3> QED
      BY <1>1, <1>5, <3>1
  <2> QED
    BY <1>1, <2>1, <2>2 DEF IsLast, u
<1> QED
  BY <1>4, <1>5

\* Seek and Get come to the first node of the list whose key is not smaller.
LEMMA SeekFacts ==
    ASSUME ShapeInv, NEW k \in Nat \ {0}
    PROVE  LET s == SeekNode(k)
           IN  /\ s = Nil => \A z \in Live : KeyOf(z) < k
               /\ s # Nil => s \in Live /\ KeyOf(s) >= k /\ \A z \in Live : KeyOf(z) >= k => KeyOf(s) <= KeyOf(z)
<1> DEFINE p == SearchPath(k)[1]
           s == Forward(p, 1)
<1>1. /\ \A x \in DOMAIN heap : KeyOf(x) \in Nat /\ x \in Nat /\ 1 \in Levels(x)
      /\ head \in DOMAIN heap /\ KeyOf(head) = 0
  BY NodeFacts DEF ShapeInv, HeadInv, Nil, KeyOf
<1>2. IsLast(p, 1, k)
  <2>1. 1 \in 1 .. MaxLevel
    BY ListAssumption
  <2> QED
    BY <2>1, PathFacts
<1> HIDE DEF p
<1>3. p \in DOMAIN heap /\ p >= head /\ KeyOf(p) < k /\ LinkedAt(p, 1)
  BY <1>1, <1>2 DEF IsLast, ShapeInv, Linked
<1>4. \A z \in Live : z \in DOMAIN heap /\ z >= head /\ z \in Nat /\ KeyOf(z) \in Nat /\ Peer(p, z)
  <2>1. \A z \in Live : z \in DOMAIN heap /\ z >= head
    BY <1>1 DEF Live
  <2> QED
    BY <1>1, <1>3, <2>1, LiveFacts
<1>5. ASSUME NEW z \in Live, KeyOf(z) >= k PROVE s # Nil /\ KeyOf(s) <= KeyOf(z)
  <2>1. KeyOf(p) < KeyOf(z)
    BY <1>1, <1>3, <1>4, <1>5
  <2> QED
    BY <1>1, <1>3, <1>4, <2>1 DEF LinkedAt
<1>6. ASSUME s # Nil PROVE s \in Live /\ KeyOf(s) >= k
  <2>1. s \in DOMAIN heap /\ Peer(p, s) /\ KeyOf(p) < KeyOf(s)
    BY <1>3, <1>6 DEF LinkedAt
  <2>2. s >= head
    BY <1>3, <2>1, LiveFacts
  <2>3. KeyOf(s) # 0 /\ KeyOf(s) \in Nat /\ s \in Nat
    BY <1>1, <1>3, <2>1
  <2>4. s \in Live
    BY <1>1, <2>1, <2>2, <2>3 DEF Live
  <2>5. KeyOf(s) < k => KeyOf(s) <= KeyOf(p)
    BY <1>1, <1>2, <2>1, <2>4 DEF IsLast
  <2> QED
    BY <1>1, <1>3, <2>1, <2>3, <2>4, <2>5
<1>7. s = Nil => \A z \in Live : KeyOf(z) < k
  BY <1>4, <1>5
<1>8. SeekNode(k) = s
  BY DEF SeekNode, p
<1> HIDE DEF s
<1> QED
  BY <1>5, <1>6, <1>7, <1>8

\* The keys of the contents are those of the nodes of the list.
LEMMA KeysAreLive ==
    ASSUME ShapeInv
    PROVE  /\ Contents = {heap[x].ent : x \in Live}
           /\ KeysOf(Contents) = {KeyOf(x) : x \in Live}
<1>1. Contents = {heap[x].ent : x \in Live}
  BY NodesAreLive DEF Contents
<1> QED
  BY <1>1 DEF KeysOf, KeyOf

\* So the search is exact.
LEMMA SearchExact ==
    ASSUME ShapeInv
    PROVE  SearchIsExact
<1> SUFFICES ASSUME NEW k \in Key
             PROVE  /\ Found(k) <=> MemHas(Contents, k)
                    /\ Found(k) => GetEntry(k) \in Contents /\ GetEntry(k).key = k
                    /\ LET rest == {j \in KeysOf(Contents) : j >= k}
                       IN  IF rest = {} THEN SeekNode(k) = Nil
                           ELSE SeekNode(k) \in Nodes /\ KeyOf(SeekNode(k)) = Min(rest)
  BY DEF SearchIsExact
<1> DEFINE s == SeekNode(k)
           rest == {j \in KeysOf(Contents) : j >= k}
<1>1. k \in Nat \ {0}
  BY RankAssumption
<1>2. /\ s = Nil => \A z \in Live : KeyOf(z) < k
      /\ s # Nil => s \in Live /\ KeyOf(s) >= k /\ \A z \in Live : KeyOf(z) >= k => KeyOf(s) <= KeyOf(z)
  BY <1>1, SeekFacts
<1> HIDE DEF s
<1>3. \A z \in Live : KeyOf(z) \in Nat
  BY NodeFacts DEF ShapeInv, Live
<1>4. Found(k) <=> s # Nil /\ KeyOf(s) = k
  BY DEF Found, s
<1>5. Found(k) <=> MemHas(Contents, k)
  <2>1. MemHas(Contents, k) <=> \E z \in Live : KeyOf(z) = k
    BY KeysAreLive DEF MemHas
  <2>2. (\E z \in Live : KeyOf(z) = k) => s # Nil /\ KeyOf(s) = k
    <3> SUFFICES ASSUME NEW z \in Live, KeyOf(z) = k PROVE s # Nil /\ KeyOf(s) = k
      OBVIOUS
    <3>1. s # Nil
      BY <1>1, <1>2
    <3>2. KeyOf(s) >= k /\ KeyOf(s) <= k /\ KeyOf(s) \in Nat
      BY <1>1, <1>2, <1>3, <3>1
    <3> QED
      BY <1>1, <3>1, <3>2
  <2> QED
    BY <1>2, <1>4, <2>1, <2>2
<1>6. Found(k) => GetEntry(k) \in Contents /\ GetEntry(k).key = k
  <2>1. GetEntry(k) = heap[s].ent
    BY DEF GetEntry, s
  <2> QED
    BY <1>2, <1>4, <2>1, KeysAreLive DEF KeyOf
<1>7. rest = {KeyOf(z) : z \in {x \in Live : KeyOf(x) >= k}}
  BY KeysAreLive
<1> HIDE DEF rest
<1>8. CASE rest = {}
  <2>1. s = Nil
    BY <1>2, <1>7, <1>8
  <2> QED
    BY <1>5, <1>6, <1>8, <2>1 DEF s, rest
<1>9. CASE rest # {}
  <2>1. PICK z \in Live : KeyOf(z) >= k
    BY <1>7, <1>9
  <2>2. s # Nil
    BY <1>1, <1>2, <1>3, <2>1
  <2>3. s \in Live /\ KeyOf(s) \in rest /\ \A j \in rest : KeyOf(s) <= j
    BY <1>2, <1>7, <2>2
  <2>4. \A j \in rest : j \in Nat
    BY <1>3, <1>7
  <2>5. Min(rest) \in rest /\ \A j \in rest : Min(rest) <= j
    BY <2>3 DEF Min
  <2>6. KeyOf(s) <= Min(rest) /\ Min(rest) <= KeyOf(s) /\ KeyOf(s) \in Nat /\ Min(rest) \in Nat
    BY <2>3, <2>4, <2>5
  <2>7. KeyOf(s) = Min(rest)
    BY <2>6
  <2>8. s \in Nodes
    BY <2>3, NodesAreLive
  <2> QED
    BY <1>5, <1>6, <1>9, <2>7, <2>8 DEF s, rest
<1> QED
  BY <1>8, <1>9

-----------------------------------------------------------------------------
(***************************************************************************)
(* The steps and the shape.                                                *)
(***************************************************************************)
LEMMA NewHeadType == NewHead \in Node
<1>1. [i \in 1 .. MaxLevel |-> Nil] \in [1 .. MaxLevel -> Nat]
  BY DEF Nil
<1>2. MaxLevel \in 1 .. MaxLevel
  BY ListAssumption
<1>3. [i \in 1 .. MaxLevel |-> Nil] \in UNION {[1 .. l -> Nat] : l \in 1 .. MaxLevel}
  BY <1>1, <1>2
<1>4. [key |-> Nil, val |-> Tombstone, seq |-> 0]
        \in [key : Key \cup {Nil}, val : Value \cup {Tombstone}, seq : 0 .. MaxSeq]
  BY ListAssumption
<1> QED
  BY <1>3, <1>4 DEF NewHead, Node

\* The new list is one head.
LEMMA ShapeInit == SkipInit => ShapeInv
<1> SUFFICES ASSUME SkipInit PROVE ShapeInv
  OBVIOUS
<1>1. heap = <<NewHead>> /\ head = 1 /\ level = 1
  BY DEF SkipInit
<1>2. heap \in Seq(Node)
  BY <1>1, NewHeadType
<1>3. DOMAIN heap = {1} /\ heap[1] = NewHead
  BY <1>1
<1>4. KeyOf(1) = Nil /\ Levels(1) = 1 .. MaxLevel /\ \A i \in 1 .. MaxLevel : Forward(1, i) = Nil
  BY <1>3 DEF KeyOf, Levels, Forward, NewHead
<1>5. HeadInv
  BY <1>1, <1>3, <1>4, ListAssumption DEF HeadInv, KeyOf
<1>6. Linked
  <2>1. ~(KeyOf(1) < KeyOf(1))
    BY <1>4 DEF Nil
  <2>2. ASSUME NEW i \in Levels(1) PROVE LinkedAt(1, i)
    <3>1. Forward(1, i) = Nil
      BY <1>4
    <3> QED
      BY <1>3, <2>1, <3>1 DEF LinkedAt
  <2> QED
    BY <1>3, <2>2 DEF Linked
<1>7. Distinct
  BY <1>3 DEF Distinct
<1> QED
  BY <1>2, <1>5, <1>6, <1>7 DEF ShapeInv

\* A step that changes neither keys nor pointers.
LEMMA ShapeKept ==
    ASSUME ShapeInv, heap' \in Seq(Node), DOMAIN heap' = DOMAIN heap, UNCHANGED <<head, level>>,
           \A x \in DOMAIN heap : heap'[x].next = heap[x].next /\ heap'[x].ent.key = heap[x].ent.key
    PROVE  ShapeInv'
<1>1. \A x \in DOMAIN heap : KeyOf(x)' = KeyOf(x) /\ Levels(x)' = Levels(x) /\ \A i : Forward(x, i)' = Forward(x, i)
  BY DEF KeyOf, Levels, Forward
<1>2. \A x, y \in DOMAIN heap : Peer(x, y)' <=> Peer(x, y)
  BY <1>1 DEF Peer
<1>3. HeadInv'
  BY <1>1 DEF ShapeInv, HeadInv
<1>4. ASSUME NEW x \in DOMAIN heap, NEW i \in Levels(x) PROVE LinkedAt(x, i)'
  <2>1. LinkedAt(x, i)
    BY DEF ShapeInv, Linked
  <2>2. Forward(x, i)' = Forward(x, i)
    BY <1>1
  <2> QED
    BY <1>1, <1>2, <2>1, <2>2 DEF LinkedAt
<1>5. Linked'
  BY <1>1, <1>4 DEF Linked
<1>6. Distinct'
  BY <1>1, <1>2 DEF ShapeInv, Distinct
<1> QED
  BY <1>3, <1>5, <1>6 DEF ShapeInv

\* Clear appends a head: the nodes there are get no new peer.
LEMMA ShapeClear ==
    ASSUME ShapeInv, Clear
    PROVE  ShapeInv'
<1> DEFINE D == DOMAIN heap
<1> PICK n : n = Len(heap) + 1
  OBVIOUS
<1>1. heap' = Append(heap, NewHead) /\ head' = n /\ level' = 1
  BY DEF Clear
<1>2. Len(heap) \in Nat /\ D = 1 .. Len(heap) /\ \A x \in D : x \in Nat /\ KeyOf(x) \in Nat
  BY NodeFacts DEF ShapeInv
<1>3. heap' \in Seq(Node)
  BY <1>1, NewHeadType DEF ShapeInv
<1>4. DOMAIN heap' = D \cup {n} /\ heap'[n] = NewHead /\ \A x \in D : heap'[x] = heap[x]
  <2>1. Len(heap') = n /\ DOMAIN heap' = 1 .. n
    BY <1>1, <1>2 DEF ShapeInv
  <2> QED
    BY <1>1, <1>2, <2>1 DEF ShapeInv
<1>5. \A x \in D : x # n /\ ~(n <= x) /\ x <= n
  BY <1>2
<1>6. \A x \in D : KeyOf(x)' = KeyOf(x) /\ Levels(x)' = Levels(x) /\ \A i : Forward(x, i)' = Forward(x, i)
  BY <1>4 DEF KeyOf, Levels, Forward
<1>7. KeyOf(n)' = Nil /\ Levels(n)' = 1 .. MaxLevel /\ \A i \in 1 .. MaxLevel : Forward(n, i)' = Nil
  BY <1>4 DEF KeyOf, Levels, Forward, NewHead
<1> HIDE DEF D
<1>8. \A x, y \in D : Peer(x, y)' <=> Peer(x, y)
  BY <1>4, <1>5, <1>6 DEF Peer, D
<1>9. \A x \in D : ~Peer(x, n)' /\ ~Peer(n, x)'
  <2>1. n <= n
    BY <1>2
  <2> QED
    BY <1>4, <1>5, <1>7, <2>1 DEF Peer
<1>10. HeadInv'
  <2>1. n <= n
    BY <1>2
  <2>2. \A x \in D \cup {n} : x <= n /\ ~(x > n)
    BY <1>2, <1>5
  <2>3. heap'[n].ent.key = Nil
    BY <1>7 DEF KeyOf
  <2> QED
    BY <1>1, <1>4, <1>7, <2>2, <2>3, ListAssumption DEF HeadInv
<1>11. ASSUME NEW x \in D, NEW i \in Levels(x) PROVE LinkedAt(x, i)'
  <2>1. LinkedAt(x, i)
    BY DEF ShapeInv, Linked, D
  <2>2. Forward(x, i)' = Forward(x, i)
    BY <1>6
  <2> QED
    BY <1>4, <1>6, <1>8, <1>9, <2>1, <2>2 DEF LinkedAt, D
<1>12. ASSUME NEW i \in 1 .. MaxLevel PROVE LinkedAt(n, i)'
  <2>1. Forward(n, i)' = Nil
    BY <1>7
  <2>2. ~(KeyOf(n)' < KeyOf(n)')
    BY <1>7 DEF Nil
  <2> QED
    BY <1>4, <1>9, <2>1, <2>2 DEF LinkedAt
<1>13. Linked'
  BY <1>4, <1>6, <1>7, <1>11, <1>12 DEF Linked
<1>14. Distinct'
  BY <1>4, <1>6, <1>8, <1>9 DEF ShapeInv, Distinct, D
<1> QED
  BY <1>3, <1>10, <1>13, <1>14 DEF ShapeInv

\* set() of a key that is there replaces the entry and nothing else.
LEMMA ShapeOverwrite ==
    ASSUME ShapeInv, NEW e \in Argument, NEW x \in DOMAIN heap, KeyOf(x) = e.key, Overwrite(e, x)
    PROVE  /\ ShapeInv' /\ DOMAIN heap' = DOMAIN heap /\ UNCHANGED <<head, level, size>>
           /\ \A y \in DOMAIN heap : y # x => heap'[y] = heap[y]
           /\ heap'[x].ent = IF e.seq >= heap[x].ent.seq THEN e ELSE heap[x].ent
           /\ \A y \in DOMAIN heap : heap'[y].ent.key = heap[y].ent.key /\ heap'[y].next = heap[y].next
<1>1. heap \in Seq(Node) /\ heap[x] \in Node
  BY NodeFacts DEF ShapeInv
<1>2. UNCHANGED <<head, level, size>>
  BY DEF Overwrite
<1>3. CASE e.seq >= heap[x].ent.seq
  <2>1. heap' = [heap EXCEPT ![x].ent = e]
    BY <1>3 DEF Overwrite
  <2>2. e \in [key : Key \cup {Nil}, val : Value \cup {Tombstone}, seq : 0 .. MaxSeq]
    BY ListAssumption DEF Argument
  <2>3. [heap[x] EXCEPT !.ent = e] \in Node
    BY <1>1, <2>2 DEF Node
  <2>4. /\ DOMAIN heap' = DOMAIN heap /\ heap'[x] = [heap[x] EXCEPT !.ent = e]
        /\ \A y \in DOMAIN heap : y # x => heap'[y] = heap[y]
    BY <1>1, <2>1
  <2>5. heap' \in Seq(Node)
    BY <1>1, <2>1, <2>3
  <2>6. heap'[x].ent = e /\ heap'[x].next = heap[x].next
    BY <1>1, <2>4 DEF Node
  <2>7. \A y \in DOMAIN heap : heap'[y].ent.key = heap[y].ent.key /\ heap'[y].next = heap[y].next
    BY <2>4, <2>6 DEF KeyOf
  <2>8. ShapeInv'
    BY <1>2, <2>4, <2>5, <2>7, ShapeKept
  <2> QED
    BY <1>2, <1>3, <2>4, <2>6, <2>7, <2>8
<1>4. CASE ~(e.seq >= heap[x].ent.seq)
  <2>1. heap' = heap
    BY <1>4 DEF Overwrite
  <2>2. ShapeInv'
    BY <1>1, <1>2, <2>1, ShapeKept
  <2> QED
    BY <1>2, <1>4, <2>1, <2>2
<1> QED
  BY <1>3, <1>4

\* path[i] is the last smaller node on level i.
LastPath(path, k) == \A i \in 1 .. MaxLevel : IsLast(path[i], i, k)

\* set() of a new key: the heap it leaves.
Linking(e, lvl, path, n) ==
    /\ heap' \in Seq(Node) /\ DOMAIN heap' = DOMAIN heap \cup {n} /\ Len(heap') = n
    /\ \A x \in DOMAIN heap :
          /\ heap'[x].ent = heap[x].ent /\ Levels(x)' = Levels(x)
          /\ \A i \in Levels(x) : Forward(x, i)' = IF i <= lvl /\ path[i] = x THEN n ELSE Forward(x, i)
    /\ heap'[n].ent = e /\ Levels(n)' = 1 .. lvl
    /\ \A i \in 1 .. lvl : Forward(n, i)' = Forward(path[i], i)

\* Link does so.
LEMMA LinkFacts ==
    ASSUME ShapeInv, NEW e \in Argument, NEW lvl \in 1 .. MaxLevel, NEW path, LastPath(path, e.key),
           NEW n, n = Len(heap) + 1, heap' = Link(e, lvl, path)
    PROVE  Linking(e, lvl, path, n)
<1> DEFINE Moved(x) == [heap[x] EXCEPT !.next = [i \in DOMAIN @ |-> IF i <= lvl /\ path[i] = x THEN n ELSE @[i]]]
           old == [x \in DOMAIN heap |-> Moved(x)]
           new == [ent |-> e, next |-> [i \in 1 .. lvl |-> Forward(path[i], i)]]
<1>1. /\ Len(heap) \in Nat /\ DOMAIN heap = 1 .. Len(heap) /\ n \in Nat
      /\ \A x \in DOMAIN heap : heap[x] \in Node /\ \A i \in Levels(x) : Forward(x, i) \in Nat
  BY NodeFacts DEF ShapeInv
<1>2. heap' = Append(old, new)
  BY DEF Link
<1>3. ASSUME NEW x \in DOMAIN heap
      PROVE  /\ Moved(x) \in Node /\ Moved(x).ent = heap[x].ent /\ DOMAIN Moved(x).next = DOMAIN heap[x].next
             /\ \A i \in DOMAIN heap[x].next :
                   Moved(x).next[i] = IF i <= lvl /\ path[i] = x THEN n ELSE heap[x].next[i]
  <2> DEFINE nx == [i \in DOMAIN heap[x].next |-> IF i <= lvl /\ path[i] = x THEN n ELSE heap[x].next[i]]
  <2>1. heap[x] \in Node
    BY <1>1
  <2>2. Moved(x) = [heap[x] EXCEPT !.next = nx]
    BY <2>1 DEF Node
  <2>3. PICK l \in 1 .. MaxLevel : heap[x].next \in [1 .. l -> Nat]
    BY <2>1 DEF Node
  <2>4. nx \in [1 .. l -> Nat]
    BY <1>1, <2>3
  <2>5. nx \in UNION {[1 .. j -> Nat] : j \in 1 .. MaxLevel}
    BY <2>4
  <2> HIDE DEF nx, Moved
  <2>6. Moved(x) \in Node /\ Moved(x).ent = heap[x].ent /\ Moved(x).next = nx
    BY <2>1, <2>2, <2>5 DEF Node
  <2> QED
    BY <2>6 DEF nx
<1>4. new \in Node
  <2>1. e \in [key : Key \cup {Nil}, val : Value \cup {Tombstone}, seq : 0 .. MaxSeq]
    BY ListAssumption DEF Argument
  <2>2. ASSUME NEW i \in 1 .. lvl PROVE Forward(path[i], i) \in Nat
    <3>1. i \in 1 .. MaxLevel
      BY ListAssumption
    <3>2. path[i] \in DOMAIN heap /\ i \in Levels(path[i])
      BY <3>1 DEF LastPath, IsLast
    <3> QED
      BY <1>1, <3>2
  <2>3. [i \in 1 .. lvl |-> Forward(path[i], i)] \in [1 .. lvl -> Nat]
    BY <2>2
  <2>4. [i \in 1 .. lvl |-> Forward(path[i], i)] \in UNION {[1 .. l -> Nat] : l \in 1 .. MaxLevel}
    BY <2>3
  <2> QED
    BY <2>1, <2>4 DEF Node
<1>5. new.ent = e /\ new.next = [i \in 1 .. lvl |-> Forward(path[i], i)]
  OBVIOUS
<1> HIDE DEF new, Moved
<1>6. old \in Seq(Node) /\ Len(old) = Len(heap) /\ \A x \in DOMAIN heap : old[x] = Moved(x)
  <2>1. old \in [1 .. Len(heap) -> Node]
    BY <1>1, <1>3
  <2>2. DOMAIN old = 1 .. Len(heap)
    BY <1>1
  <2> QED
    BY <1>1, <2>1, <2>2
<1> HIDE DEF old
<1>7. heap' \in Seq(Node) /\ Len(heap') = n
  BY <1>1, <1>2, <1>4, <1>6
<1>8. DOMAIN heap' = DOMAIN heap \cup {n} /\ heap'[n] = new /\ \A x \in DOMAIN heap : heap'[x] = Moved(x)
  <2>1. DOMAIN heap' = 1 .. n /\ n \notin DOMAIN heap
    BY <1>1, <1>7
  <2>2. \A x \in 1 .. Len(old) : heap'[x] = old[x]
    BY <1>2, <1>4, <1>6
  <2>3. heap'[n] = new
    BY <1>1, <1>2, <1>4, <1>6
  <2> QED
    BY <1>1, <1>6, <2>1, <2>2, <2>3
<1>9. ASSUME NEW x \in DOMAIN heap
      PROVE  /\ heap'[x].ent = heap[x].ent /\ Levels(x)' = Levels(x)
             /\ \A i \in Levels(x) : Forward(x, i)' = IF i <= lvl /\ path[i] = x THEN n ELSE Forward(x, i)
  BY <1>3, <1>8 DEF Levels, Forward
<1>10. heap'[n].ent = e /\ Levels(n)' = 1 .. lvl /\ \A i \in 1 .. lvl : Forward(n, i)' = Forward(path[i], i)
  BY <1>5, <1>8 DEF Levels, Forward
<1> QED
  BY <1>7, <1>8, <1>9, <1>10 DEF Linking

\* The new node is next after the last smaller ones, and before what they pointed to.
LEMMA ShapeInsert ==
    ASSUME ShapeInv, NEW e \in Argument, NEW lvl \in 1 .. MaxLevel, NEW path,
           LastPath(path, e.key), \A z \in Live : KeyOf(z) # e.key, Insert(e, lvl, path)
    PROVE  ShapeInv'
<1> DEFINE D == DOMAIN heap
           k == e.key
<1> PICK n : n = Len(heap) + 1
  OBVIOUS
<1>1. heap' = Link(e, lvl, path) /\ head' = head /\ level' = IF lvl > level THEN lvl ELSE level
  BY DEF Insert
<1>2. /\ heap' \in Seq(Node) /\ DOMAIN heap' = D \cup {n}
      /\ \A x \in D :
            /\ heap'[x].ent = heap[x].ent /\ Levels(x)' = Levels(x)
            /\ \A i \in Levels(x) : Forward(x, i)' = IF i <= lvl /\ path[i] = x THEN n ELSE Forward(x, i)
      /\ heap'[n].ent = e /\ Levels(n)' = 1 .. lvl
      /\ \A i \in 1 .. lvl : Forward(n, i)' = Forward(path[i], i)
  <2>1. Linking(e, lvl, path, n)
    BY <1>1, LinkFacts
  <2> QED
    BY <2>1 DEF Linking
<1>3. \A x \in D : KeyOf(x)' = KeyOf(x) /\ KeyOf(n)' = k
  BY <1>2 DEF KeyOf
<1>4. /\ Len(heap) \in Nat /\ D = 1 .. Len(heap) /\ n \in Nat
      /\ \A x \in D : x \in Nat /\ KeyOf(x) \in Nat /\ Levels(x) \subseteq 1 .. MaxLevel
  BY NodeFacts DEF ShapeInv
<1>5. k \in Nat \ {0} /\ k # Nil /\ KeyOf(n)' = k
  BY <1>2, RankAssumption DEF Argument, Nil, KeyOf
<1>6. /\ head \in D /\ KeyOf(head) = 0 /\ level \in 1 .. MaxLevel /\ MaxLevel \in Nat
      /\ \A h \in D : KeyOf(h) = Nil => h <= head
  BY ListAssumption DEF ShapeInv, HeadInv, Nil, KeyOf
<1>7. \A x \in D : x < n /\ n # x /\ ~(n <= x)
  BY <1>4
<1>8. \A x, y \in D : Peer(x, y)' <=> Peer(x, y)
  BY <1>2, <1>3, <1>5 DEF Peer
<1>9. \A x \in D : (Peer(x, n)' <=> x >= head) /\ (Peer(n, x)' <=> x >= head)
  <2> SUFFICES ASSUME NEW x \in D PROVE (Peer(x, n)' <=> x >= head) /\ (Peer(n, x)' <=> x >= head)
    OBVIOUS
  <2>1. \A h \in DOMAIN heap' : KeyOf(h)' = Nil <=> h \in D /\ KeyOf(h) = Nil
    BY <1>2, <1>3, <1>5, <1>7
  <2>2. \A h \in D : KeyOf(h) = Nil => h <= n
    BY <1>4
  <2>3. x >= head => \A h \in D : KeyOf(h) = Nil => h <= x
    <3> SUFFICES ASSUME x >= head, NEW h \in D, KeyOf(h) = Nil PROVE h <= x
      OBVIOUS
    <3>1. h <= head /\ h \in Nat /\ head \in Nat /\ x \in Nat
      BY <1>4, <1>6
    <3> QED
      BY <3>1
  <2>4. (\A h \in D : KeyOf(h) = Nil => h <= x) => x >= head
    BY <1>4, <1>6 DEF Nil
  <2>5. D \subseteq DOMAIN heap'
    BY <1>2
  <2>6. Peer(x, n)' <=> \A h \in D : KeyOf(h) = Nil => h <= x
    BY <2>1, <2>2, <2>5 DEF Peer
  <2>7. Peer(n, x)' <=> \A h \in D : KeyOf(h) = Nil => h <= x
    BY <2>1, <2>2, <2>5 DEF Peer
  <2> QED
    BY <2>3, <2>4, <2>6, <2>7
<1>10. \A x, y \in D : x >= head => (Peer(x, y) <=> y >= head)
  BY LiveFacts
<1>11. \A z \in D : z >= head /\ KeyOf(z) # 0 => z \in Live /\ KeyOf(z) # k
  BY <1>4, <1>6 DEF Live
<1>12. \A i \in 1 .. lvl : i \in 1 .. MaxLevel
  BY <1>6
<1> HIDE DEF D, k
<1>13. HeadInv'
  <2>1. \A h \in DOMAIN heap' : KeyOf(h)' = Nil => h <= head
    BY <1>2, <1>3, <1>5, <1>6
  <2>2. level' \in 1 .. MaxLevel /\ level' >= level /\ level' >= lvl
    BY <1>1, <1>6
  <2>3. \A x \in DOMAIN heap' : x > head => Levels(x)' \subseteq 1 .. level'
    <3>1. \A x \in D : x > head => Levels(x) \subseteq 1 .. level
      BY DEF ShapeInv, HeadInv, D
    <3>2. 1 .. level \subseteq 1 .. level' /\ 1 .. lvl \subseteq 1 .. level'
      BY <1>6, <2>2
    <3> QED
      BY <1>2, <3>1, <3>2
  <2> PICK h : h = head
    OBVIOUS
  <2>4. h \in DOMAIN heap' /\ heap'[h].ent.key = Nil /\ Levels(h)' = 1 .. MaxLevel
    BY <1>2, <1>6 DEF ShapeInv, HeadInv
  <2> QED
    BY <1>1, <2>1, <2>2, <2>3, <2>4 DEF HeadInv
<1>14. ASSUME NEW x \in D, NEW i \in Levels(x) PROVE LinkedAt(x, i)'
  <2>1. LinkedAt(x, i) /\ i \in 1 .. MaxLevel
    BY <1>4 DEF ShapeInv, Linked, D
  <2>2. CASE i <= lvl /\ path[i] = x
    <3>1. Forward(x, i)' = n /\ i \in 1 .. lvl
      BY <1>2, <2>1, <2>2
    <3>2. IsLast(x, i, k)
      BY <2>1, <2>2 DEF LastPath, k
    <3>3. x >= head /\ KeyOf(x) < k
      BY <3>2 DEF IsLast
    <3>4. n # Nil /\ n \in DOMAIN heap' /\ i \in Levels(n)' /\ Peer(x, n)' /\ KeyOf(x)' < KeyOf(n)'
      BY <1>2, <1>3, <1>4, <1>5, <1>9, <3>1, <3>3 DEF Nil
    <3>5. ASSUME NEW z \in DOMAIN heap', i \in Levels(z)', Peer(x, z)', KeyOf(x)' < KeyOf(z)'
          PROVE  KeyOf(n)' <= KeyOf(z)'
      <4>1. CASE z = n
        BY <1>5, <4>1
      <4>2. CASE z \in D
        <5>1. i \in Levels(z) /\ Peer(x, z) /\ KeyOf(x) < KeyOf(z)
          BY <1>2, <1>3, <1>8, <3>5, <4>2
        <5>2. z \in Live
          BY <1>4, <1>10, <1>11, <3>3, <4>2, <5>1
        <5>3. KeyOf(z) < k => KeyOf(z) <= KeyOf(x)
          BY <3>2, <5>1, <5>2 DEF IsLast
        <5> QED
          BY <1>3, <1>4, <1>5, <4>2, <5>1, <5>3
      <4> QED
        BY <1>2, <4>1, <4>2
    <3> QED
      BY <3>1, <3>4, <3>5 DEF LinkedAt
  <2>3. CASE ~(i <= lvl /\ path[i] = x)
    <3> PICK y : y = Forward(x, i)
      OBVIOUS
    <3>1. Forward(x, i)' = y
      BY <1>2, <2>3
    <3>2. y # Nil => y \in D /\ i \in Levels(y) /\ Peer(x, y) /\ KeyOf(x) < KeyOf(y)
      BY <2>1 DEF LinkedAt, D
    <3>3. \A z \in D : i \in Levels(z) /\ Peer(x, z) /\ KeyOf(x) < KeyOf(z) => y # Nil /\ KeyOf(y) <= KeyOf(z)
      BY <2>1 DEF LinkedAt, D
    <3>4. ASSUME i \in 1 .. lvl, x >= head, KeyOf(x) < k PROVE y # Nil /\ KeyOf(y) <= k
      <4> PICK p : p = path[i]
        OBVIOUS
      <4>1. IsLast(p, i, k) /\ p # x
        BY <2>1, <2>3, <3>4 DEF LastPath, k
      <4>2. p \in D /\ p >= head /\ i \in Levels(p) /\ KeyOf(p) < k
        BY <4>1 DEF IsLast, D
      <4>3. Peer(x, p)
        BY <1>10, <3>4, <4>2
      <4>4. KeyOf(x) # KeyOf(p)
        BY <4>1, <4>2, <4>3 DEF ShapeInv, Distinct, D
      <4>5. KeyOf(x) # 0 => KeyOf(x) <= KeyOf(p)
        BY <1>11, <3>4, <4>1 DEF IsLast
      <4>6. KeyOf(x) < KeyOf(p)
        BY <1>4, <4>2, <4>4, <4>5
      <4>7. y # Nil /\ KeyOf(y) <= KeyOf(p)
        BY <3>3, <4>2, <4>3, <4>6
      <4> QED
        BY <1>4, <1>5, <3>2, <4>2, <4>7
    <3>5. y # Nil => y \in DOMAIN heap' /\ i \in Levels(y)' /\ Peer(x, y)' /\ KeyOf(x)' < KeyOf(y)'
      BY <1>2, <1>3, <1>8, <3>2
    <3>6. ASSUME NEW z \in DOMAIN heap', i \in Levels(z)', Peer(x, z)', KeyOf(x)' < KeyOf(z)'
          PROVE  y # Nil /\ KeyOf(y)' <= KeyOf(z)'
      <4>1. CASE z = n
        <5>1. i \in 1 .. lvl /\ x >= head /\ KeyOf(x) < k
          BY <1>2, <1>3, <1>5, <1>9, <3>6, <4>1
        <5>2. y # Nil /\ KeyOf(y) <= k
          BY <3>4, <5>1
        <5> QED
          BY <1>3, <1>5, <3>2, <4>1, <5>2
      <4>2. CASE z \in D
        BY <1>2, <1>3, <1>8, <3>2, <3>3, <3>6, <4>2
      <4> QED
        BY <1>2, <4>1, <4>2
    <3> QED
      BY <3>1, <3>5, <3>6 DEF LinkedAt
  <2> QED
    BY <2>2, <2>3
<1>15. ASSUME NEW i \in 1 .. lvl PROVE LinkedAt(n, i)'
  <2> PICK p : p = path[i]
    OBVIOUS
  <2> PICK y : y = Forward(p, i)
    OBVIOUS
  <2>1. IsLast(p, i, k)
    BY <1>12 DEF LastPath, k
  <2>2. p \in D /\ p >= head /\ i \in Levels(p) /\ KeyOf(p) < k
    BY <2>1 DEF IsLast, D
  <2>3. LinkedAt(p, i) /\ Forward(n, i)' = y
    BY <1>2, <2>2 DEF ShapeInv, Linked, D
  <2>4. ASSUME y # Nil
        PROVE  y \in DOMAIN heap' /\ i \in Levels(y)' /\ Peer(n, y)' /\ KeyOf(n)' < KeyOf(y)'
    <3>1. y \in D /\ i \in Levels(y) /\ Peer(p, y) /\ KeyOf(p) < KeyOf(y)
      BY <2>3, <2>4 DEF LinkedAt, D
    <3>2. y >= head
      BY <1>10, <2>2, <3>1
    <3>3. y \in Live /\ KeyOf(y) # k
      BY <1>4, <1>11, <2>2, <3>1, <3>2
    <3>4. KeyOf(y) < k => KeyOf(y) <= KeyOf(p)
      BY <2>1, <3>1, <3>3 DEF IsLast
    <3>5. k < KeyOf(y)
      BY <1>4, <1>5, <2>2, <3>1, <3>3, <3>4
    <3> QED
      BY <1>2, <1>3, <1>5, <1>9, <3>1, <3>2, <3>5
  <2>5. ASSUME NEW z \in DOMAIN heap', i \in Levels(z)', Peer(n, z)', KeyOf(n)' < KeyOf(z)'
        PROVE  y # Nil /\ KeyOf(y)' <= KeyOf(z)'
    <3>1. z # n
      BY <1>5, <2>5
    <3>2. z \in D /\ z >= head /\ i \in Levels(z) /\ k < KeyOf(z)
      BY <1>2, <1>3, <1>5, <1>9, <2>5, <3>1
    <3>3. Peer(p, z) /\ KeyOf(p) < KeyOf(z)
      BY <1>4, <1>5, <1>10, <2>2, <3>2
    <3>4. y # Nil /\ KeyOf(y) <= KeyOf(z) /\ y \in D
      BY <2>3, <3>2, <3>3 DEF LinkedAt, D
    <3> QED
      BY <1>3, <3>2, <3>4
  <2> QED
    BY <2>3, <2>4, <2>5 DEF LinkedAt
<1>16. Linked'
  BY <1>2, <1>14, <1>15 DEF Linked
<1>17. Distinct'
  <2> SUFFICES ASSUME NEW x \in DOMAIN heap', NEW y \in DOMAIN heap', Peer(x, y)', KeyOf(x)' = KeyOf(y)'
               PROVE  x = y
    BY DEF Distinct
  <2>1. CASE x \in D /\ y \in D
    BY <1>3, <1>8, <2>1 DEF ShapeInv, Distinct, D
  <2>2. CASE x \in D /\ y = n
    <3>1. x >= head /\ KeyOf(x) = k
      BY <1>3, <1>5, <1>9, <2>2
    <3> QED
      BY <1>5, <1>11, <2>2, <3>1
  <2>3. CASE x = n /\ y \in D
    <3>1. y >= head /\ KeyOf(y) = k
      BY <1>3, <1>5, <1>9, <2>3
    <3> QED
      BY <1>5, <1>11, <2>3, <3>1
  <2> QED
    BY <1>2, <2>1, <2>2, <2>3
<1> QED
  BY <1>2, <1>13, <1>16, <1>17 DEF ShapeInv

-----------------------------------------------------------------------------
(***************************************************************************)
(* What a list holds, and where an iterator stands.                        *)
(***************************************************************************)
OnePerKey(C) == \A f, g \in C : f.key = g.key => f = g

\* The nodes there are keep their keys and their peers.
Extended ==
    /\ DOMAIN heap \subseteq DOMAIN heap'
    /\ \A x \in DOMAIN heap : KeyOf(x)' = KeyOf(x)
    /\ \A x, y \in DOMAIN heap : Peer(x, y) => Peer(x, y)'

\* A node more at the end of the heap parts no two nodes.
LEMMA PeersKept ==
    ASSUME ShapeInv, NEW n, n = Len(heap) + 1, DOMAIN heap \subseteq DOMAIN heap',
           DOMAIN heap' \subseteq DOMAIN heap \cup {n},
           \A x \in DOMAIN heap : KeyOf(x)' = KeyOf(x)
    PROVE  Extended
<1>1. Len(heap) \in Nat /\ DOMAIN heap = 1 .. Len(heap)
  BY NodeFacts DEF ShapeInv
<1>2. \A x \in DOMAIN heap : ~(n <= x)
  BY <1>1
<1>3. ASSUME NEW x \in DOMAIN heap, NEW y \in DOMAIN heap, Peer(x, y),
             NEW h \in DOMAIN heap', KeyOf(h)' = Nil
      PROVE  h <= x <=> h <= y
  <2>1. CASE h = n
    BY <1>2, <2>1
  <2>2. CASE h \in DOMAIN heap
    BY <1>3, <2>2 DEF Peer
  <2> QED
    BY <2>1, <2>2
<1> QED
  BY <1>3 DEF Extended, Peer

\* MemApply of an entry whose key is new adds it.
LEMMA ApplyNew ==
    ASSUME NEW C \in SUBSET EntryUpTo(MaxSeq), OnePerKey(C), NEW e \in EntryUpTo(MaxSeq),
           \A f \in C : f.key # e.key
    PROVE  MemApply({f \in C : f.key # e.key \/ f.seq # e.seq}, {e}) = C \cup {e}
<1>1. {f \in C : f.key # e.key \/ f.seq # e.seq} = C
  OBVIOUS
<1>2. \A f \in C \cup {e} : f.seq <= f.seq
  BY ListAssumption DEF EntryUpTo
<1>3. \A f, g \in C \cup {e} : f.key = g.key => f = g
  BY DEF OnePerKey
<1>4. Top(C \cup {e}) = C \cup {e}
  BY <1>2, <1>3 DEF Top
<1> QED
  BY <1>1, <1>4 DEF MemApply

\* MemApply of an entry whose key is there keeps the newer one, and the new one of two with one number.
LEMMA ApplyOld ==
    ASSUME NEW C \in SUBSET EntryUpTo(MaxSeq), OnePerKey(C), NEW e \in EntryUpTo(MaxSeq),
           NEW o \in C, o.key = e.key
    PROVE  MemApply({f \in C : f.key # e.key \/ f.seq # e.seq}, {e})
               = (C \ {o}) \cup {IF e.seq >= o.seq THEN e ELSE o}
<1> DEFINE R == {f \in C : f.key # e.key \/ f.seq # e.seq}
<1>1. \A f \in C \cup {e} : f.seq \in Nat /\ f.seq <= f.seq
  BY ListAssumption DEF EntryUpTo
<1>2. \A f \in C : (f.key = e.key <=> f = o)
  BY DEF OnePerKey
<1>3. CASE e.seq = o.seq
  <2>1. R = C \ {o}
    BY <1>2, <1>3
  <2>2. Top((C \ {o}) \cup {e}) = (C \ {o}) \cup {e}
    BY <1>1, <1>2 DEF Top, OnePerKey
  <2> QED
    BY <1>1, <1>3, <2>1, <2>2 DEF MemApply
<1>4. CASE e.seq # o.seq
  <2>1. R = C
    BY <1>2, <1>4
  <2>2. CASE e.seq >= o.seq
    <3>1. ~(e.seq <= o.seq)
      BY <1>1, <1>4, <2>2
    <3>2. o \notin Top(C \cup {e})
      BY <3>1 DEF Top
    <3>3. e \in Top(C \cup {e})
      BY <1>1, <1>2, <2>2 DEF Top
    <3>4. \A f \in C \ {o} : f \in Top(C \cup {e})
      BY <1>1, <1>2 DEF Top, OnePerKey
    <3>5. Top(C \cup {e}) = (C \ {o}) \cup {e}
      BY <3>2, <3>3, <3>4, TopIsSubset
    <3> QED
      BY <2>1, <2>2, <3>5 DEF MemApply
  <2>3. CASE ~(e.seq >= o.seq)
    <3>1. ~(o.seq <= e.seq) /\ e.seq <= o.seq
      BY <1>1, <2>3
    <3>2. e \notin Top(C \cup {e})
      BY <3>1 DEF Top
    <3>3. \A f \in C : f \in Top(C \cup {e})
      BY <1>1, <1>2, <3>1 DEF Top, OnePerKey
    <3>4. Top(C \cup {e}) = (C \ {o}) \cup {o}
      BY <3>2, <3>3, TopIsSubset
    <3> QED
      BY <2>1, <2>3, <3>4 DEF MemApply
  <2> QED
    BY <2>2, <2>3
<1> QED
  BY <1>3, <1>4

\* What the list holds.
Held == {heap[x].ent : x \in Live}

\* It is a set of entries, and has a key once.
LEMMA HeldFacts ==
    ASSUME ShapeInv
    PROVE  /\ Held \in SUBSET EntryUpTo(MaxSeq) /\ OnePerKey(Held)
           /\ \A x, y \in Live : KeyOf(x) = KeyOf(y) => x = y
<1>1. \A x \in Live : x \in DOMAIN heap /\ heap[x] \in Node /\ KeyOf(x) \in Key
  BY NodeFacts, LiveFacts DEF ShapeInv, Live
<1>2. ASSUME NEW x \in Live PROVE heap[x].ent \in EntryUpTo(MaxSeq)
  BY <1>1 DEF Node, KeyOf, EntryUpTo
<1>3. \A x, y \in Live : Peer(x, y)
  <2>1. \A x \in Live : x \in DOMAIN heap /\ x >= head
    BY NodeFacts DEF ShapeInv, HeadInv, Live
  <2> QED
    BY <2>1, LiveFacts
<1>4. \A x, y \in Live : KeyOf(x) = KeyOf(y) => x = y
  BY <1>1, <1>3 DEF ShapeInv, Distinct
<1> QED
  BY <1>2, <1>4 DEF Held, OnePerKey, KeyOf

\* set() of a new key, and of a key that is there.
Added(e) ==
    /\ \A f \in Held : f.key # e.key
    /\ Held' = Held \cup {e}
    /\ size' = size + 1 /\ bytes' = bytes + estimateBytes(e)

Replaced(e, o) ==
    /\ o \in Held /\ o.key = e.key /\ size' = size
    /\ Held' = (Held \ {o}) \cup {IF e.seq >= o.seq THEN e ELSE o}
    /\ bytes' = IF e.seq >= o.seq THEN bytes + estimateBytes(e) - estimateBytes(o) ELSE bytes

\* Where the key is not found, no node has it.
LEMMA NotFound ==
    ASSUME ShapeInv, NEW k \in Nat \ {0}, ~(SeekNode(k) # Nil /\ KeyOf(SeekNode(k)) = k)
    PROVE  \A z \in Live : KeyOf(z) # k
<1> PICK s : s = SeekNode(k)
  OBVIOUS
<1>1. /\ s = Nil => \A z \in Live : KeyOf(z) < k
      /\ s # Nil => s \in Live /\ KeyOf(s) >= k /\ \A z \in Live : KeyOf(z) >= k => KeyOf(s) <= KeyOf(z)
  BY SeekFacts
<1>2. \A z \in Live : KeyOf(z) \in Nat
  BY NodeFacts DEF ShapeInv, Live
<1> QED
  BY <1>1, <1>2

\* One of the two is what every set() does, whichever levels it picks.
LEMMA SetFacts ==
    ASSUME ShapeInv, NEW e \in Argument, Set(e)
    PROVE  /\ ShapeInv' /\ Extended
           /\ Added(e) \/ \E o \in Held : Replaced(e, o)
<1> PICK path : path = SearchPath(e.key)
  OBVIOUS
<1> PICK x : x = Forward(path[1], 1)
  OBVIOUS
<1> PICK n : n = Len(heap) + 1
  OBVIOUS
<1>1. e.key \in Nat \ {0}
  BY RankAssumption DEF Argument
<1>2. x = SeekNode(e.key)
  BY DEF SeekNode
<1>3. Len(heap) \in Nat /\ DOMAIN heap = 1 .. Len(heap) /\ head \in DOMAIN heap
  BY NodeFacts DEF ShapeInv, HeadInv
<1>4. CASE x # Nil /\ KeyOf(x) = e.key
  <2>1. Overwrite(e, x)
    BY <1>4 DEF Set
  <2>2. x \in Live /\ x \in DOMAIN heap
    BY <1>1, <1>2, <1>4, SeekFacts DEF Live
  <2>3. /\ ShapeInv' /\ DOMAIN heap' = DOMAIN heap /\ UNCHANGED <<head, level, size>>
        /\ \A y \in DOMAIN heap : y # x => heap'[y] = heap[y]
        /\ heap'[x].ent = IF e.seq >= heap[x].ent.seq THEN e ELSE heap[x].ent
        /\ \A y \in DOMAIN heap : heap'[y].ent.key = heap[y].ent.key /\ heap'[y].next = heap[y].next
    BY <1>4, <2>1, <2>2, ShapeOverwrite
  <2>4. Extended
    <3>1. \A y \in DOMAIN heap : KeyOf(y)' = KeyOf(y)
      BY <2>3 DEF KeyOf
    <3> QED
      BY <2>3, <3>1, PeersKept
  <2> PICK o : o = heap[x].ent
    OBVIOUS
  <2>5. Live' = Live /\ \A y \in Live : y \in DOMAIN heap
    BY <2>3 DEF Live
  <2>6. \A y \in Live : y # x => heap[y].ent # o
    BY <2>2, HeldFacts DEF KeyOf
  <2>7. Held' = (Held \ {o}) \cup {IF e.seq >= o.seq THEN e ELSE o}
    BY <2>2, <2>3, <2>5, <2>6 DEF Held
  <2>8. o \in Held /\ o.key = e.key
    BY <1>4, <2>2 DEF Held, KeyOf
  <2>9. bytes' = IF e.seq >= o.seq THEN bytes + estimateBytes(e) - estimateBytes(o) ELSE bytes
    BY <2>1 DEF Overwrite
  <2>10. Replaced(e, o)
    BY <2>3, <2>7, <2>8, <2>9 DEF Replaced
  <2> QED
    BY <2>3, <2>4, <2>8, <2>10
<1>5. CASE ~(x # Nil /\ KeyOf(x) = e.key)
  <2>1. PICK lvl \in 1 .. MaxLevel : Insert(e, lvl, path)
    BY <1>5 DEF Set
  <2>2. \A z \in Live : KeyOf(z) # e.key
    BY <1>1, <1>2, <1>5, NotFound
  <2>3. LastPath(path, e.key)
    BY <1>1, PathFacts DEF LastPath
  <2>4. ShapeInv'
    BY <2>1, <2>2, <2>3, ShapeInsert
  <2>5. /\ heap' = Link(e, lvl, path) /\ head' = head
        /\ size' = size + 1 /\ bytes' = bytes + estimateBytes(e)
    BY <2>1 DEF Insert
  <2>6. Linking(e, lvl, path, n)
    BY <2>3, <2>5, LinkFacts
  <2>7. /\ DOMAIN heap' = DOMAIN heap \cup {n} /\ heap'[n].ent = e
        /\ \A y \in DOMAIN heap : heap'[y].ent = heap[y].ent
    BY <2>6 DEF Linking
  <2>8. Extended
    <3>1. \A y \in DOMAIN heap : KeyOf(y)' = KeyOf(y)
      BY <2>7 DEF KeyOf
    <3> QED
      BY <2>7, <3>1, PeersKept
  <2>9. Live' = Live \cup {n}
    BY <1>3, <2>5, <2>7 DEF Live
  <2>10. Held' = Held \cup {e}
    BY <2>7, <2>9 DEF Held, Live
  <2>11. \A f \in Held : f.key # e.key
    BY <2>2 DEF Held, KeyOf
  <2> QED
    BY <2>4, <2>5, <2>8, <2>10, <2>11 DEF Added
<1> QED
  BY <1>4, <1>5

\* Clear leaves an empty list, and the nodes of the old one as they are.
LEMMA ClearFacts ==
    ASSUME ShapeInv, Clear
    PROVE  ShapeInv' /\ Extended /\ Held' = {}
<1> PICK n : n = Len(heap) + 1
  OBVIOUS
<1>1. heap' = Append(heap, NewHead) /\ head' = n
  BY DEF Clear
<1>2. Len(heap) \in Nat /\ DOMAIN heap = 1 .. Len(heap)
  BY NodeFacts DEF ShapeInv
<1>3. DOMAIN heap' = DOMAIN heap \cup {n} /\ \A x \in DOMAIN heap : heap'[x] = heap[x]
  <2>1. Len(heap') = n /\ DOMAIN heap' = 1 .. n
    BY <1>1, <1>2 DEF ShapeInv
  <2> QED
    BY <1>1, <1>2, <2>1 DEF ShapeInv
<1>4. Extended
  <2>1. \A x \in DOMAIN heap : KeyOf(x)' = KeyOf(x)
    BY <1>3 DEF KeyOf
  <2> QED
    BY <1>3, <2>1, PeersKept
<1>5. Live' = {}
  BY <1>1, <1>2, <1>3 DEF Live
<1> QED
  BY <1>4, <1>5, ShapeClear DEF Held

\* The iterator stands on a node, and the keys it has yet to come to are those of later nodes of the
\* list it is in, which need not be the list of the head any more.
Ahead(x, k) == KeyOf(x) < k /\ \E z \in DOMAIN heap : Peer(x, z) /\ KeyOf(z) = k

WalkInv == /\ cur \in DOMAIN heap \cup {Nil}
           /\ \A k \in due : cur # Nil /\ Ahead(cur, k)

\* Writes leave the iterator where it is.
LEMMA WalkExtended ==
    ASSUME ShapeInv, WalkInv, Extended, UNCHANGED iterVars
    PROVE  WalkInv'
<1> PICK c : c = cur
  OBVIOUS
<1>1. cur' = c /\ due' = due
  BY DEF iterVars
<1>2. c \in DOMAIN heap \cup {Nil} /\ \A k \in due : c # Nil /\ Ahead(c, k)
  BY DEF WalkInv
<1>3. c \in DOMAIN heap' \cup {Nil}
  BY <1>2 DEF Extended
<1>4. ASSUME NEW k \in due PROVE c # Nil /\ Ahead(c, k)'
  BY <1>2 DEF Extended, Ahead
<1> QED
  BY <1>1, <1>3, <1>4 DEF WalkInv

\* A move to a node that has the keys D ahead of it, its own apart, or to the end when D is empty.
LEMMA WalkMove ==
    ASSUME NEW x, NEW D, MoveTo(x, D), x \in DOMAIN heap \cup {Nil},
           \A k \in D : x # Nil /\ (k # KeyOf(x) => Ahead(x, k))
    PROVE  WalkInv'
<1>1. cur' = x /\ heap' = heap /\ due' = IF x = Nil THEN D ELSE D \ {KeyOf(x)}
  BY DEF MoveTo, listVars
<1>2. \A k \in due' : k \in D /\ x # Nil /\ Ahead(x, k)
  BY <1>1
<1>3. \A k : Ahead(x, k)' <=> Ahead(x, k)
  BY <1>1 DEF Ahead, Peer, KeyOf
<1> QED
  BY <1>1, <1>2, <1>3 DEF WalkInv

\* Every operation of the iterator is such a move.
LEMMA WalkNext ==
    ASSUME ShapeInv, WalkInv,
           NewIterator \/ SeekToFirst \/ (\E t \in Key : Seek(t)) \/ Next
    PROVE  WalkInv'
<1>1. /\ \A x \in DOMAIN heap : x \in Nat /\ KeyOf(x) \in Nat /\ 1 \in Levels(x)
      /\ head \in DOMAIN heap /\ head \in Nat /\ KeyOf(head) = 0
  BY NodeFacts DEF ShapeInv, HeadInv, Nil, KeyOf
<1>2. \A x, y \in DOMAIN heap : x >= head => (Peer(x, y) <=> y >= head)
  BY LiveFacts
<1>3. \A x \in DOMAIN heap : LinkedAt(x, 1)
  BY <1>1 DEF ShapeInv, Linked
<1>4. KeysOf(Contents) = {KeyOf(z) : z \in Live}
  BY KeysAreLive
<1>5. \A z \in Live : z \in DOMAIN heap /\ z >= head /\ KeyOf(z) > 0
  BY <1>1, LiveFacts DEF Live
<1> PICK h : h = head
  OBVIOUS
<1>6. CASE NewIterator
  <2>1. \A z \in Live : Ahead(h, KeyOf(z))
    BY <1>1, <1>2, <1>5 DEF Ahead
  <2>2. h # Nil
    BY <1>1, NodeFacts DEF ShapeInv
  <2>3. MoveTo(h, KeysOf(Contents))
    BY <1>6 DEF NewIterator
  <2> PICK D : D = KeysOf(Contents)
    OBVIOUS
  <2> QED
    BY <1>1, <1>4, <2>1, <2>2, <2>3, WalkMove
<1>7. CASE SeekToFirst
  <2> PICK y : y = Forward(h, 1)
    OBVIOUS
  <2> PICK D : D = KeysOf(Contents)
    OBVIOUS
  <2>1. MoveTo(y, D)
    BY <1>7 DEF SeekToFirst
  <2>2. y # Nil => y \in DOMAIN heap /\ Peer(h, y)
    BY <1>1, <1>3 DEF LinkedAt
  <2>3. ASSUME NEW z \in Live PROVE y # Nil /\ (KeyOf(z) # KeyOf(y) => Ahead(y, KeyOf(z)))
    <3>1. Peer(h, z) /\ KeyOf(h) < KeyOf(z) /\ 1 \in Levels(z) /\ z \in DOMAIN heap
      BY <1>1, <1>2, <1>5
    <3>2. y # Nil /\ KeyOf(y) <= KeyOf(z)
      BY <1>1, <1>3, <3>1 DEF LinkedAt
    <3>3. y \in DOMAIN heap /\ y >= head
      BY <1>1, <1>2, <2>2, <3>2
    <3>4. Peer(y, z)
      BY <1>2, <1>5, <3>3
    <3> QED
      BY <1>1, <3>1, <3>2, <3>3, <3>4 DEF Ahead
  <2> QED
    BY <1>4, <2>1, <2>2, <2>3, WalkMove
<1>8. ASSUME NEW t \in Key, Seek(t) PROVE WalkInv'
  <2> PICK s : s = SeekNode(t)
    OBVIOUS
  <2> PICK D : D = {k \in KeysOf(Contents) : k >= t}
    OBVIOUS
  <2>1. MoveTo(s, D)
    BY <1>8 DEF Seek
  <2>2. t \in Nat \ {0}
    BY RankAssumption
  <2>3. /\ s = Nil => \A z \in Live : KeyOf(z) < t
        /\ s # Nil => s \in Live /\ KeyOf(s) >= t /\ \A z \in Live : KeyOf(z) >= t => KeyOf(s) <= KeyOf(z)
    BY <2>2, SeekFacts
  <2>4. ASSUME NEW z \in Live, KeyOf(z) >= t PROVE s # Nil /\ (KeyOf(z) # KeyOf(s) => Ahead(s, KeyOf(z)))
    <3>1. s # Nil /\ s \in Live /\ KeyOf(s) <= KeyOf(z)
      BY <1>1, <1>5, <2>2, <2>3, <2>4
    <3>2. Peer(s, z) /\ KeyOf(s) \in Nat /\ KeyOf(z) \in Nat
      BY <1>1, <1>2, <1>5, <3>1
    <3> QED
      BY <1>5, <3>1, <3>2 DEF Ahead
  <2> QED
    BY <1>4, <1>5, <2>1, <2>3, <2>4, WalkMove
<1>9. CASE Next
  <2> PICK c : c = cur
    OBVIOUS
  <2> PICK y : y = Forward(c, 1)
    OBVIOUS
  <2> PICK D : D = due
    OBVIOUS
  <2>1. MoveTo(y, D) /\ c # Nil
    BY <1>9 DEF Next
  <2>2. c \in DOMAIN heap /\ \A k \in D : Ahead(c, k)
    BY <2>1 DEF WalkInv
  <2>3. y # Nil => y \in DOMAIN heap /\ Peer(c, y)
    BY <1>3, <2>2 DEF LinkedAt
  <2>4. ASSUME NEW k \in D PROVE y # Nil /\ (k # KeyOf(y) => Ahead(y, k))
    <3>1. PICK z \in DOMAIN heap : Peer(c, z) /\ KeyOf(z) = k /\ KeyOf(c) < k
      BY <2>2 DEF Ahead
    <3>2. y # Nil /\ KeyOf(y) <= k
      BY <1>1, <1>3, <2>2, <3>1 DEF LinkedAt
    <3>3. Peer(y, z)
      BY <2>3, <3>1, <3>2 DEF Peer
    <3> QED
      BY <1>1, <2>3, <3>1, <3>2, <3>3 DEF Ahead
  <2> QED
    BY <2>1, <2>3, <2>4, WalkMove
<1> QED
  BY <1>6, <1>7, <1>8, <1>9

-----------------------------------------------------------------------------
(***************************************************************************)
(* The counters.  The sum over a set is a fold that picks the elements in  *)
(* some order; it is the number of elements of a set that holds n pairs    *)
(* for every entry of n bytes, which shows that the order does not matter. *)
(***************************************************************************)
\* A pair for each byte of an entry, and of the entries of a set.
BytesOf(e) == {<<e, i>> : i \in 1 .. estimateBytes(e)}

AllBytes(s) == UNION {BytesOf(e) : e \in s}

\* An entry has as many pairs as bytes.
LEMMA CountOne ==
    ASSUME NEW e \in EntryUpTo(MaxSeq)
    PROVE  estimateBytes(e) \in Nat /\ IsFiniteSet(BytesOf(e)) /\ Cardinality(BytesOf(e)) = estimateBytes(e)
<1> DEFINE n == estimateBytes(e)
           f == [i \in 1 .. n |-> <<e, i>>]
<1>1. n \in Nat
  <2>1. e.val = Tombstone \/ e.val \in Nat
    BY RankAssumption DEF EntryUpTo
  <2> QED
    BY <2>1 DEF estimateBytes
<1> HIDE DEF n
<1>2. f \in Bijection(1 .. n, BytesOf(e))
  BY DEF BytesOf, n, Bijection, Injection, Surjection, IsInjective
<1>3. ExistsBijection(1 .. n, BytesOf(e))
  BY <1>2 DEF ExistsBijection
<1> QED
  BY <1>1, <1>3, FS_CountingElements, FS_NatBijection DEF n

\* An entry more has its own pairs.
LEMMA CountMore ==
    ASSUME NEW s \in SUBSET EntryUpTo(MaxSeq), NEW x \in s, IsFiniteSet(AllBytes(s \ {x}))
    PROVE  /\ IsFiniteSet(AllBytes(s))
           /\ Cardinality(AllBytes(s)) = estimateBytes(x) + Cardinality(AllBytes(s \ {x}))
<1>1. x \in EntryUpTo(MaxSeq)
  OBVIOUS
<1>2. estimateBytes(x) \in Nat /\ IsFiniteSet(BytesOf(x)) /\ Cardinality(BytesOf(x)) = estimateBytes(x)
  BY <1>1, CountOne
<1>3. AllBytes(s) = BytesOf(x) \cup AllBytes(s \ {x})
  BY DEF AllBytes
<1>4. BytesOf(x) \cap AllBytes(s \ {x}) = {}
  BY DEF AllBytes, BytesOf
<1>5. Cardinality({}) = 0 /\ Cardinality(AllBytes(s \ {x})) \in Nat
  BY FS_EmptySet, FS_CardinalityType
<1>6. /\ IsFiniteSet(BytesOf(x) \cup AllBytes(s \ {x}))
      /\ Cardinality(BytesOf(x) \cup AllBytes(s \ {x})) =
            Cardinality(BytesOf(x)) + Cardinality(AllBytes(s \ {x}))
              - Cardinality(BytesOf(x) \cap AllBytes(s \ {x}))
  BY <1>2, FS_Union
<1>7. /\ IsFiniteSet(AllBytes(s))
      /\ Cardinality(AllBytes(s)) = estimateBytes(x) + Cardinality(AllBytes(s \ {x})) - 0
  BY <1>2, <1>3, <1>4, <1>5, <1>6, Zenon
<1> QED
  BY <1>2, <1>5, <1>7

\* A finite set of entries has a finite set of pairs.
LEMMA CountFinite ==
    ASSUME NEW S \in SUBSET EntryUpTo(MaxSeq), IsFiniteSet(S)
    PROVE  \A s \in SUBSET S : IsFiniteSet(AllBytes(s)) /\ Cardinality(AllBytes(s)) \in Nat
<1> DEFINE G == {s \in SUBSET S : IsFiniteSet(AllBytes(s))}
<1>1. ASSUME NEW s \in SUBSET S, NEW x \in s, s \ {x} \in G PROVE s \in G
  BY <1>1, CountMore
<1>2. {} \in G
  BY FS_EmptySet DEF AllBytes
<1>3. Inductive(S, G)
  BY <1>1, <1>2 DEF Inductive
<1>4. \A s \in SUBSET S : s \in G
  <2> HIDE DEF G
  <2> QED
    BY <1>3, PartInduction
<1> QED
  BY <1>4, FS_CardinalityType

\* The fold over the estimates is that count.
LEMMA SumIsCount ==
    ASSUME NEW S \in SUBSET EntryUpTo(MaxSeq), IsFiniteSet(S)
    PROVE  MapThenSumSet(estimateBytes, S) = Cardinality(AllBytes(S))
<1> DEFINE pick(s) == CHOOSE x \in s : TRUE
           Step(f, s) == IF s = {} THEN 0 ELSE estimateBytes(pick(s)) + f[s \ {pick(s)}]
           iter == CHOOSE f : f = [s \in SUBSET S |-> Step(f, s)]
           count == [s \in SUBSET S |-> Cardinality(AllBytes(s))]
<1>1. MapThenSumSet(estimateBytes, S) = iter[S]
  BY DEF MapThenSumSet, MapThenFoldSet
<1>2. ASSUME NEW s \in SUBSET S PROVE count[s] = Step(count, s)
  <2>1. CASE s = {}
    BY <2>1, FS_EmptySet DEF AllBytes
  <2>2. CASE s # {}
    <3> PICK x : x = pick(s)
      OBVIOUS
    <3>1. x \in s /\ s \ {x} \in SUBSET S
      BY <2>2
    <3>2. IsFiniteSet(AllBytes(s \ {x}))
      BY <3>1, CountFinite
    <3>3. Cardinality(AllBytes(s)) = estimateBytes(x) + Cardinality(AllBytes(s \ {x}))
      BY <3>1, <3>2, CountMore
    <3> QED
      BY <2>2, <3>1, <3>3
  <2> QED
    BY <2>1, <2>2
<1>3. count = [s \in SUBSET S |-> Step(count, s)]
  BY <1>2
<1>4. iter = [s \in SUBSET S |-> Step(iter, s)]
  BY <1>3
<1> DEFINE G == {s \in SUBSET S : iter[s] = count[s]}
<1>5. \A s \in SUBSET S : iter[s] = Step(iter, s) /\ count[s] = Step(count, s)
  <2> HIDE DEF iter, count
  <2> QED
    BY <1>3, <1>4
<1>6. ASSUME NEW s \in SUBSET S, \A x \in s : s \ {x} \in G PROVE s \in G
  <2> HIDE DEF iter, count
  <2>1. CASE s = {}
    BY <1>5, <2>1
  <2>2. CASE s # {}
    <3> PICK x : x = pick(s)
      OBVIOUS
    <3>1. x \in s
      BY <2>2
    <3>2. iter[s \ {x}] = count[s \ {x}]
      BY <1>6, <3>1
    <3> QED
      BY <1>5, <2>2, <3>2
  <2> QED
    BY <2>1, <2>2
<1>7. Inductive(S, G)
  BY <1>6 DEF Inductive
<1>8. S \in G
  <2> HIDE DEF G
  <2> QED
    BY <1>7, PartInduction
<1>9. iter[S] = count[S]
  <2> HIDE DEF iter, count
  <2> QED
    BY <1>8
<1> QED
  BY <1>1, <1>9

\* The counters agree with what the list holds.
CountInv ==
    /\ IsFiniteSet(Held)
    /\ size = Cardinality(Held)
    /\ bytes = Cardinality(AllBytes(Held))

\* A new entry adds itself and its bytes.
LEMMA CountAdded ==
    ASSUME ShapeInv, CountInv, NEW e \in Argument, Added(e)
    PROVE  CountInv'
<1> PICK H : H = Held
  OBVIOUS
<1> PICK J : J = Held'
  OBVIOUS
<1> PICK c : c = Cardinality(AllBytes(H))
  OBVIOUS
<1>1. /\ J = H \cup {e} /\ e \notin H /\ J \in SUBSET EntryUpTo(MaxSeq) /\ IsFiniteSet(H)
      /\ size' = Cardinality(H) + 1 /\ bytes' = c + estimateBytes(e)
  <2>1. e \in EntryUpTo(MaxSeq) /\ H \in SUBSET EntryUpTo(MaxSeq)
    BY HeldFacts, ListAssumption DEF Argument, EntryUpTo
  <2> QED
    BY <2>1 DEF Added, CountInv
<1>2. IsFiniteSet(J) /\ Cardinality(J) = Cardinality(H) + 1
  BY <1>1, FS_AddElement
<1>3. H = J \ {e} /\ H \in SUBSET J /\ e \in J
  BY <1>1
<1>4. IsFiniteSet(AllBytes(J \ {e})) /\ c \in Nat /\ c = Cardinality(AllBytes(J \ {e}))
  BY <1>1, <1>2, <1>3, CountFinite
<1>5. Cardinality(AllBytes(J)) = estimateBytes(e) + c
  BY <1>1, <1>3, <1>4, CountMore
<1>6. estimateBytes(e) \in Nat
  BY <1>1, <1>3, CountOne
<1>7. bytes' = Cardinality(AllBytes(J))
  BY <1>1, <1>4, <1>5, <1>6
<1> QED
  BY <1>1, <1>2, <1>7 DEF CountInv

\* A replacement swaps the bytes of the old entry for those of the new one.
LEMMA CountReplaced ==
    ASSUME ShapeInv, CountInv, NEW e \in Argument, NEW o \in Held, Replaced(e, o)
    PROVE  CountInv'
<1> PICK H : H = Held
  OBVIOUS
<1> PICK J : J = Held'
  OBVIOUS
<1>1. /\ o \in H /\ H \in SUBSET EntryUpTo(MaxSeq) /\ OnePerKey(H) /\ o.key = e.key
      /\ J = (H \ {o}) \cup {IF e.seq >= o.seq THEN e ELSE o} /\ J \in SUBSET EntryUpTo(MaxSeq)
      /\ IsFiniteSet(H) /\ size' = Cardinality(H)
      /\ bytes' = IF e.seq >= o.seq THEN Cardinality(AllBytes(H)) + estimateBytes(e) - estimateBytes(o)
                  ELSE Cardinality(AllBytes(H))
  <2>1. e \in EntryUpTo(MaxSeq) /\ H \in SUBSET EntryUpTo(MaxSeq) /\ OnePerKey(H)
    BY HeldFacts, ListAssumption DEF Argument, EntryUpTo
  <2> QED
    BY <2>1 DEF Replaced, CountInv
<1>2. CASE e.seq >= o.seq
  <2>1. J = (H \ {o}) \cup {e} /\ e \notin H \ {o} /\ e \in J /\ J \ {e} = H \ {o}
    BY <1>1, <1>2 DEF OnePerKey
  <2>2. /\ IsFiniteSet(H \ {o}) /\ Cardinality(H \ {o}) = Cardinality(H) - 1
        /\ IsFiniteSet(J) /\ Cardinality(J) = Cardinality(H \ {o}) + 1 /\ Cardinality(H) \in Nat
    <3>1. IsFiniteSet(H \ {o}) /\ Cardinality(H \ {o}) = Cardinality(H) - 1
      BY <1>1, FS_RemoveElement
    <3>2. IsFiniteSet(J) /\ Cardinality(J) = Cardinality(H \ {o}) + 1
      BY <2>1, <3>1, FS_AddElement
    <3> QED
      BY <1>1, <3>1, <3>2, FS_CardinalityType
  <2>3. IsFiniteSet(AllBytes(H \ {o})) /\ Cardinality(AllBytes(H \ {o})) \in Nat
    BY <1>1, CountFinite
  <2>4. Cardinality(AllBytes(H)) = estimateBytes(o) + Cardinality(AllBytes(H \ {o}))
    BY <1>1, <2>3, CountMore
  <2>5. Cardinality(AllBytes(J)) = estimateBytes(e) + Cardinality(AllBytes(H \ {o}))
    BY <1>1, <2>1, <2>3, CountMore
  <2>6. estimateBytes(e) \in Nat /\ estimateBytes(o) \in Nat
    BY <1>1, <2>1, CountOne
  <2>7. bytes' = Cardinality(AllBytes(J))
    BY <1>1, <1>2, <2>3, <2>4, <2>5, <2>6
  <2>8. size' = Cardinality(J)
    BY <1>1, <2>2
  <2> QED
    BY <2>2, <2>7, <2>8 DEF CountInv
<1>3. CASE ~(e.seq >= o.seq)
  <2>1. J = H /\ bytes' = Cardinality(AllBytes(H))
    BY <1>1, <1>3
  <2> QED
    BY <1>1, <2>1 DEF CountInv
<1> QED
  BY <1>2, <1>3

-----------------------------------------------------------------------------
(***************************************************************************)
(* The inductive invariant, and what follows from it.                      *)
(***************************************************************************)
SkipInv == ShapeInv /\ sent = Held /\ CountInv /\ WalkInv

\* An empty list with its head has it.
LEMMA SkipInvInit == SkipInit => SkipInv
<1> SUFFICES ASSUME SkipInit PROVE SkipInv
  OBVIOUS
<1>1. ShapeInv
  BY ShapeInit
<1>2. DOMAIN heap = 1 .. 1 /\ head = 1
  BY DEF SkipInit
<1>3. Held = {}
  BY <1>2 DEF Held, Live
<1>4. sent = Held
  BY <1>3 DEF SkipInit, EmptyMem
<1>5. CountInv
  <2>1. AllBytes({}) = {}
    BY DEF AllBytes
  <2> QED
    BY <1>3, <2>1, FS_EmptySet DEF CountInv, SkipInit
<1>6. WalkInv
  BY DEF SkipInit, WalkInv
<1> QED
  BY <1>1, <1>4, <1>5, <1>6 DEF SkipInv

\* Put and Delete.
LEMMA SkipInvSet ==
    ASSUME SkipInv, NEW e \in Argument, Set(e)
    PROVE  SkipInv'
<1>1. ShapeInv /\ sent = Held /\ CountInv /\ WalkInv
  BY DEF SkipInv
<1>2. ShapeInv' /\ Extended /\ (Added(e) \/ \E o \in Held : Replaced(e, o))
  BY <1>1, SetFacts
<1>3. Held \in SUBSET EntryUpTo(MaxSeq) /\ OnePerKey(Held) /\ e \in EntryUpTo(MaxSeq)
  BY <1>1, HeldFacts, ListAssumption DEF Argument, EntryUpTo
<1> PICK H : H = Held
  OBVIOUS
<1>4. sent' = MemApply({f \in H : f.key # e.key \/ f.seq # e.seq}, {e})
  BY <1>1 DEF Set
<1>5. WalkInv'
  BY <1>1, <1>2, WalkExtended DEF Set
<1>6. CASE Added(e)
  <2>1. CountInv'
    BY <1>1, <1>2, <1>6, CountAdded
  <2>2. Held' = H \cup {e} /\ \A f \in H : f.key # e.key
    BY <1>6 DEF Added
  <2>3. sent' = H \cup {e}
    BY <1>3, <1>4, <2>2, ApplyNew
  <2> QED
    BY <1>2, <1>5, <2>1, <2>2, <2>3 DEF SkipInv
<1>7. ASSUME NEW o \in Held, Replaced(e, o) PROVE SkipInv'
  <2>1. CountInv'
    BY <1>1, <1>2, <1>7, CountReplaced
  <2>2. o \in H /\ o.key = e.key /\ Held' = (H \ {o}) \cup {IF e.seq >= o.seq THEN e ELSE o}
    BY <1>7 DEF Replaced
  <2>3. sent' = (H \ {o}) \cup {IF e.seq >= o.seq THEN e ELSE o}
    BY <1>3, <1>4, <2>2, ApplyOld
  <2> QED
    BY <1>2, <1>5, <2>1, <2>2, <2>3 DEF SkipInv
<1> QED
  BY <1>2, <1>6, <1>7

\* No operation of the list or of the iterator breaks it.
LEMMA SkipInvNext == SkipInv /\ [SkipNext]_skipVars => SkipInv'
<1> SUFFICES ASSUME SkipInv, [SkipNext]_skipVars PROVE SkipInv'
  OBVIOUS
<1>1. ShapeInv /\ sent = Held /\ CountInv /\ WalkInv
  BY DEF SkipInv
<1>2. ASSUME NEW e \in Argument, Set(e) PROVE SkipInv'
  BY <1>2, SkipInvSet
<1>3. CASE Clear
  <2>1. ShapeInv' /\ Extended /\ Held' = {}
    BY <1>1, <1>3, ClearFacts
  <2>2. sent' = {} /\ size' = 0 /\ bytes' = 0 /\ UNCHANGED iterVars
    BY <1>3 DEF Clear, EmptyMem
  <2>3. WalkInv'
    BY <1>1, <2>1, <2>2, WalkExtended
  <2>4. AllBytes({}) = {}
    BY DEF AllBytes
  <2>5. CountInv'
    BY <2>1, <2>2, <2>4, FS_EmptySet DEF CountInv
  <2> QED
    BY <2>1, <2>2, <2>3, <2>5 DEF SkipInv
<1>4. ASSUME UNCHANGED listVars PROVE ShapeInv' /\ sent' = Held' /\ CountInv'
  <2>1. heap' = heap /\ head' = head /\ level' = level /\ size' = size /\ bytes' = bytes /\ sent' = sent
    BY <1>4 DEF listVars
  <2>2. ShapeInv'
    BY <1>1, <2>1, ShapeKept DEF ShapeInv
  <2>3. Held' = Held
    BY <2>1 DEF Held, Live
  <2> QED
    BY <1>1, <2>1, <2>2, <2>3 DEF CountInv
<1>5. ASSUME NewIterator \/ SeekToFirst \/ (\E t \in Key : Seek(t)) \/ Next PROVE SkipInv'
  <2>1. UNCHANGED listVars
    BY <1>5 DEF NewIterator, SeekToFirst, Seek, Next, MoveTo
  <2>2. WalkInv'
    BY <1>1, <1>5, WalkNext
  <2> QED
    BY <1>4, <2>1, <2>2 DEF SkipInv
<1>6. CASE UNCHANGED skipVars
  <2>1. UNCHANGED listVars /\ UNCHANGED iterVars
    BY <1>6 DEF skipVars
  <2>2. Extended
    BY <2>1 DEF listVars, Extended, KeyOf, Peer
  <2>3. WalkInv'
    BY <1>1, <2>1, <2>2, WalkExtended
  <2> QED
    BY <1>4, <2>1, <2>3 DEF SkipInv
<1> QED
  BY <1>2, <1>3, <1>5, <1>6 DEF SkipNext

\* So it always holds.
LEMMA SkipInvAlways == SkipSpec => []SkipInv
  BY SkipInvInit, SkipInvNext, PTL DEF SkipSpec

(***************************************************************************)
(* The list holds the newest version of every key it was given since the   *)
(* last Clear, whatever the levels randomLevel picks and in whatever order *)
(* the versions arrive (SkipList.set, SkipList.Clear).                     *)
(***************************************************************************)
THEOREM ListImplementsMemTable == SkipSpec => []ImplementsMemTable
<1>1. SkipInv => ImplementsMemTable
  BY KeysAreLive DEF SkipInv, ImplementsMemTable, Held
<1> QED
  BY <1>1, SkipInvAlways, PTL

(***************************************************************************)
(* Get finds the entry of every key that is there and nothing else, and    *)
(* Seek the first key that is not smaller (SkipList.Get, Iterator.Seek).   *)
(***************************************************************************)
THEOREM SearchesAreExact == SkipSpec => []SearchIsExact
<1>1. SkipInv => SearchIsExact
  BY SearchExact DEF SkipInv
<1> QED
  BY <1>1, SkipInvAlways, PTL

(***************************************************************************)
(* Len and Bytes, which decide about flushes, are the number and the       *)
(* estimated size of what the list holds (SkipList.Len, SkipList.Bytes).   *)
(***************************************************************************)
THEOREM CountersAgree == SkipSpec => []CountersMatch
<1>1. ASSUME SkipInv PROVE CountersMatch
  <2>1. Contents = Held /\ Held \in SUBSET EntryUpTo(MaxSeq)
    BY <1>1, KeysAreLive, HeldFacts DEF SkipInv, Held
  <2>2. IsFiniteSet(Held) /\ size = Cardinality(Held) /\ bytes = Cardinality(AllBytes(Held))
    BY <1>1 DEF SkipInv, CountInv
  <2>3. MapThenSumSet(estimateBytes, Held) = Cardinality(AllBytes(Held))
    BY <2>1, <2>2, SumIsCount
  <2> QED
    BY <2>1, <2>2, <2>3 DEF CountersMatch
<1> QED
  BY <1>1, SkipInvAlways, PTL

(***************************************************************************)
(* An iterator comes to every key that was there when it was placed and is *)
(* not behind it, through writes and through Clear (Iterator.Next).        *)
(***************************************************************************)
THEOREM WalksVisitAll == SkipSpec => []WalkVisitsAll
<1>1. SkipInv => WalkVisitsAll
  BY DEF SkipInv, WalkInv, Ahead, WalkVisitsAll
<1> QED
  BY <1>1, SkipInvAlways, PTL
=============================================================================
